---- MODULE Spec2Model ----
(***************************************************************************)
(* Verification model of the WinUAE audio bridge (od-win32/sounddep):      *)
(*   audio_ringbuffer.h   AudioRingBuffer<T>  (lock-free SPSC frame ring)  *)
(*   audio_resampler.cpp  AudioResampler      (linear interpolation)       *)
(*   audio_layer2.cpp     AudioLayer2         (the bridge)                 *)
(*   audio_wasapi_layer3.cpp  AudioWASAPILayer3  (the sink adapter)        *)
(*                                                                         *)
(* The specifications of this module:                                      *)
(*   SpecRing       one AudioRingBuffer driven by whole calls              *)
(*   SpecSPSC       one AudioRingBuffer, a producer inside Write and a     *)
(*                  consumer inside Read, interleaved at loads, slot       *)
(*                  copies and stores                                      *)
(*   Spec           the AudioLayer2 bridge driven by whole calls           *)
(*   SpecThreads    PushSample and PullSamples step by step in two         *)
(*                  threads, with weak fairness for a running thread       *)
(*   SpecRate       one second of a 44100 Hz producer into a 48000 Hz      *)
(*                  bridge                                                 *)
(*   SpecResampler  the AudioResampler alone                               *)
(*   SpecEstimator  the rate estimator (UpdateRateMeasurement) alone       *)
(*   SpecSink       the sink adapter pulling from a bridge                 *)
(*   SpecChunk      the bridge fed by chunks at rates close to each other  *)
(*   SpecLifecycle  Initialize and Shutdown of the bridge, statement by    *)
(*                  statement                                              *)
(*   SpecProgress   a producer that keeps calling PushSample, with weak    *)
(*                  fairness for its calls                                 *)
(*   SpecRounding   Initialize of a ring up to the return of NextPowerOf2, *)
(*                  one loop iteration per step, with weak fairness        *)
(*                                                                         *)
(* Conventions.  A C array is a record: its length, the cells stored to    *)
(* since its allocation (indexed from 0) and what every other cell reads,  *)
(* so that arrays too large to enumerate stay small.  uint32_t values that *)
(* the code combines with "& capacityMask" are kept as unbounded integers: *)
(* for a mask below 2^32 the two's complement AND of the unwrapped integer *)
(* equals the AND of the value wrapped to 32 bits.  The one computation    *)
(* whose wrap-around matters, the shift in NextPowerOf2, is done on 16-bit *)
(* halves.  Rates (double) are integers in units of 1 / RateScale Hz, the  *)
(* resampler's position is an integer in units of 1 / PosDen input frames, *)
(* and float samples are integers in units of 1 / (32768 * FloatScale).    *)
(* The float that is not a number is the value NaN.                        *)
(***************************************************************************)
EXTENDS Integers, Sequences, FiniteSets, TLC

\* content of memory that was allocated but never written, and that of
\* memory that a memset cleared
Garbage == "garbage"

Zeroed == "zeroed"

\* ------------------------------------------------------------------------
\* Bounds of the model
\* ------------------------------------------------------------------------

\* largest small capacity request made of a stand-alone ring
MaxRequested == 4

\* chunks fed to the bridge that is fed by chunks at nearby rates
MaxChunkCalls == 3

\* Initialize calls made on that bridge
MaxChunkInits == 2

\* frames pulled from that bridge
MaxChunkPulls == 2

\* Initialize and Shutdown calls made on the bridge that is followed
\* statement by statement
MaxLifecycleCalls == 3

\* chunks fed to that bridge
MaxLifecycleChunks == 1

\* PushSample calls made by the producer that keeps pushing
MaxProgressPushes == 48

\* frames after which the sink of that bridge stops pulling
MaxProgressPulled == 16

\* number of Initialize calls whose rounding loop is followed step by step
MaxRoundingCalls == 2

\* largest frame count passed to Write / Read of a stand-alone ring
MaxFrames == 3

\* number of calls made on a stand-alone ring
MaxRingOps == 5

\* number of Initialize calls made on a stand-alone ring
MaxRingInits == 2

\* largest channel count of a stand-alone ring
MaxRingChannels == 2

\* capacity requested of the ring shared by the two threads
SpscRequested == 3

\* largest frame count of a concurrent Write or Read
MaxSpscFrames == 2

\* number of Write calls of the producer thread
MaxSpscWrites == 3

\* number of Read calls of the consumer thread
MaxSpscReads == 3

\* number of PushSample calls counted by g_audioDebugVars.pushSampleCalls
MaxPushes == 17

\* number of counted PushSample calls after which Initialize and
\* ProcessFromPaula are still called
MaxPushesBeforeInit == 1

\* number of counted PushSample calls that are given a cycles_per_sample
\* other than the nominal one (the first ones after construction)
MaxOffRate == 1

\* largest underrun count of the output ring at which PullSamples is called
MaxUnderruns == 1

\* largest frame count requested of PullSamples
MaxPullFrames == 17

\* number of ProcessFromPaula calls counted by g_audioDebugVars.totalProcessCalls
MaxChunks == 2

\* number of PushSample calls of the producer thread
MaxThreadPushes == 1

\* number of PullSamples calls of the sink thread
MaxThreadPulls == 1

\* largest frame count requested by the sink thread
MaxThreadPullFrames == 2

\* number of frames pushed in the end-to-end run
MaxRatePushes == 44100

\* largest input_frames of a Process call on the resampler alone
MaxChunkFrames == 3

\* largest output_capacity of a Process call on the resampler alone
MaxOutputCapacity == 3

\* number of Process calls on the resampler alone
MaxProcessCalls == 2

\* number of Initialize calls on the resampler alone
MaxResamplerInits == 1

\* number of rate observations on the estimator alone
MaxObservations == 4

\* number of Initialize calls on the bridge of the estimator alone
MaxEstimatorInits == 2

\* number of pull events of the sink adapter
MaxPullEvents == 3

\* number of chunks fed to the bridge that the sink adapter pulls from
MaxSinkChunks == 1

\* number of Initialize calls on the sink adapter
MaxSinkInits == 2

\* ------------------------------------------------------------------------
\* Memory
\* ------------------------------------------------------------------------

EmptyCells == [x \in {} |-> 0]

\* the null pointer to an array
NULL == [size |-> -1, def |-> Garbage, m |-> EmptyCells]

\* memset(buffer, 0, size): every cell reads 0
MemZero(size) == [size |-> size, def |-> Zeroed, m |-> EmptyCells]

\* new T[size] without a memset: every cell reads Garbage
MemUninit(size) == [size |-> size, def |-> Garbage, m |-> EmptyCells]

\* a cell that was stored to since the allocation
MemWritten(mem, i) == i \in DOMAIN mem.m

MemLoad(mem, i) ==
    IF MemWritten(mem, i) THEN mem.m[i]
    ELSE IF mem.def = Zeroed THEN 0 ELSE Garbage

MemStore(mem, i, v) == [mem EXCEPT !.m = (i :> v) @@ @]

\* memset(mem + from, v, count)
MemFill(mem, from, count, v) ==
    [mem EXCEPT !.m = [j \in from..(from + count - 1) |-> v] @@ @]

\* ------------------------------------------------------------------------
\* uint32_t arithmetic
\* ------------------------------------------------------------------------

Half == 65536

\* a uint32_t as two 16-bit halves
U32(n) == [hi |-> n \div Half, lo |-> n % Half]

U32Zero == [hi |-> 0, lo |-> 0]

U32One == [hi |-> 0, lo |-> 1]

U32IsZero(a) == a.hi = 0 /\ a.lo = 0

U32Lt(a, b) == a.hi < b.hi \/ (a.hi = b.hi /\ a.lo < b.lo)

\* a - 1 for a # 0
U32Dec(a) == IF a.lo > 0 THEN [hi |-> a.hi, lo |-> a.lo - 1]
                         ELSE [hi |-> a.hi - 1, lo |-> Half - 1]

\* the value of a as an integer; defined for a < 2^31
U32ToInt(a) == a.hi * Half + a.lo

U32Fits(a) == a.hi < 32768

RECURSIVE BitAndRec(_, _)
BitAndRec(x, m) ==
    IF m = 0 THEN 0
    ELSE (x % 2) * (m % 2) + 2 * BitAndRec(x \div 2, m \div 2)

\* x & m for 0 <= m; x may be negative (two's complement)
BitAnd(x, m) == BitAndRec(x, m)

U32And(a, b) == [hi |-> BitAnd(a.hi, b.hi), lo |-> BitAnd(a.lo, b.lo)]

\* power <<= 1 on a uint32_t: the top bit is shifted out
Shl1(p) == [hi |-> (p.hi * 2 + p.lo \div 32768) % Half, lo |-> (p.lo * 2) % Half]

\* ------------------------------------------------------------------------
\* AudioRingBuffer<T>
\* ------------------------------------------------------------------------

\* what NextPowerOf2 yields when its loop does not terminate
Diverges == [hi |-> -1, lo |-> -1]

ZeroStats == [totalWritten |-> 0, totalRead |-> 0, overruns |-> 0, underruns |-> 0]

\* AudioRingBuffer(): the state after construction
NewRing == [buffer |-> NULL, capacity |-> 0, capacityMask |-> 0, channels |-> 0,
            writePos |-> 0, readPos |-> 0, stats |-> ZeroStats]

\* while (power < n) power <<= 1;  once power is 0 and 0 < n the loop can
\* no longer leave (0 << 1 = 0): the call does not return
\* variant of Np2Loop: the loop tests the next power instead of the current
RECURSIVE Np2LoopStopsEarly(_, _)
Np2LoopStopsEarly(power, n) ==
    IF U32Lt(Shl1(power), n)
    THEN IF U32IsZero(power) THEN Diverges ELSE Np2LoopStopsEarly(Shl1(power), n)
    ELSE power

RECURSIVE Np2Loop(_, _)
Np2Loop(power, n) ==
    IF U32Lt(power, n)
    THEN IF U32IsZero(power) THEN Diverges ELSE Np2Loop(Shl1(power), n)
    ELSE power

NextPowerOf2(n) ==
    IF U32IsZero(n) THEN U32One
    ELSE IF U32IsZero(U32And(n, U32Dec(n))) THEN n
    ELSE Np2Loop(U32One, n)

ResetStats(rb) == [rb EXCEPT !.stats = ZeroStats]

\* Initialize after NextPowerOf2 has returned cap (lines 88-106); allocOk is
\* the outcome of new T[totalSamples].  Returns the ring and the result.
RingInitializeWith(rb, cap, numChannels, allocOk) ==
    LET rb1 == [rb EXCEPT !.capacity = cap, !.capacityMask = cap - 1,
                          !.channels = numChannels]
        totalSamples == cap * numChannels
    IN IF ~allocOk
       THEN [rb |-> [rb1 EXCEPT !.buffer = NULL], ret |-> FALSE]
       ELSE [rb |-> ResetStats([rb1 EXCEPT !.buffer = MemZero(totalSamples),
                                           !.writePos = 0, !.readPos = 0]),
             ret |-> TRUE]

\* bool Initialize(uint32_t capacityFrames, int numChannels); capacityFrames
\* is given as 16-bit halves.  returned = FALSE: the call never returns.
RingInitialize(rb, capacityFrames, numChannels, allocOk) ==
    LET cap == NextPowerOf2(capacityFrames)
    IN IF cap = Diverges
       THEN [rb |-> rb, ret |-> FALSE, returned |-> FALSE]
       ELSE LET r == RingInitializeWith(rb, U32ToInt(cap), numChannels, allocOk)
            IN [rb |-> r.rb, ret |-> r.ret, returned |-> TRUE]

RingShutdown(rb) == [rb EXCEPT !.buffer = NULL, !.capacity = 0]

GetAvailableRead(rb) == BitAnd(rb.writePos - rb.readPos, rb.capacityMask)

\* variant of GetAvailableWrite: no slot is reserved
GetAvailableWriteNoReserve(rb) == BitAnd(rb.readPos - rb.writePos, rb.capacityMask)

GetAvailableWrite(rb) == BitAnd(rb.readPos - rb.writePos - 1, rb.capacityMask)

\* the frame index of the i-th frame after position pos
FrameIdx(rb, pos, i) == BitAnd(pos + i, rb.capacityMask)

\* one iteration of the copy loop of Write: frame i of data into the i-th
\* slot after wPos, channel by channel
WriteFrame(rb, data, wPos, i) ==
    LET bufferOffset == FrameIdx(rb, wPos, i) * rb.channels
        \* the buffer after the iterations for channels 0..n-1
        RECURSIVE Ch(_)
        Ch(n) ==
            IF n <= 0 THEN rb.buffer
            ELSE MemStore(Ch(n - 1), bufferOffset + (n - 1),
                          MemLoad(data, i * rb.channels + (n - 1)))
    IN [rb EXCEPT !.buffer = Ch(rb.channels)]

\* the copy loop of Write, iterations i = 0..frameCount-1: every cell of a
\* frame slot the loop addresses holds what the last iteration addressing
\* that slot stored; all other cells are untouched
WriteFrames(rb, data, wPos, frameCount) ==
    LET iters == 0..(frameCount - 1)
        LastIter(slot) == CHOOSE i \in iters :
                              /\ FrameIdx(rb, wPos, i) = slot
                              /\ \A j \in iters : FrameIdx(rb, wPos, j) = slot => j <= i
        cells == {FrameIdx(rb, wPos, i) * rb.channels + ch :
                      i \in iters, ch \in 0..(rb.channels - 1)}
    IN [rb EXCEPT !.buffer.m =
            [c \in cells |->
                MemLoad(WriteFrame(rb, data, wPos, LastIter(c \div rb.channels)).buffer, c)]
            @@ @]

\* variant of WriteSpace: every slot may be filled
WriteSpaceNoReserve(rPos, wPos, capacityMask) ==
    capacityMask + 1 - BitAnd(wPos - rPos, capacityMask)

\* available = (rPos - wPos - 1) & capacityMask
WriteSpace(rPos, wPos, capacityMask) == BitAnd(rPos - wPos - 1, capacityMask)

\* available = (wPos - rPos) & capacityMask
ReadAvail(wPos, rPos, capacityMask) == BitAnd(wPos - rPos, capacityMask)

\* variant of RingWrite: on overflow the frames that fit are written
RingWritePartial(rb, data, frameCount) ==
    IF rb.buffer = NULL \/ data = NULL \/ frameCount = 0
    THEN [rb |-> rb, ret |-> FALSE]
    ELSE LET wPos == rb.writePos
             rPos == rb.readPos
             available == WriteSpace(rPos, wPos, rb.capacityMask)
         IN IF frameCount > available
            THEN LET rb1 == WriteFrames(rb, data, wPos, available)
                 IN [rb |-> [rb1 EXCEPT !.writePos = BitAnd(wPos + available, rb.capacityMask),
                                        !.stats.overruns = @ + 1],
                     ret |-> FALSE]
            ELSE LET rb1 == WriteFrames(rb, data, wPos, frameCount)
                 IN [rb |-> [rb1 EXCEPT !.writePos = BitAnd(wPos + frameCount, rb.capacityMask),
                                        !.stats.totalWritten = @ + frameCount],
                     ret |-> TRUE]

\* variant of RingWrite: a write that exactly fills the free space is refused
RingWriteStrict(rb, data, frameCount) ==
    IF rb.buffer = NULL \/ data = NULL \/ frameCount = 0
    THEN [rb |-> rb, ret |-> FALSE]
    ELSE LET wPos == rb.writePos
             rPos == rb.readPos
             available == WriteSpace(rPos, wPos, rb.capacityMask)
         IN IF frameCount >= available
            THEN [rb |-> [rb EXCEPT !.stats.overruns = @ + 1], ret |-> FALSE]
            ELSE LET rb1 == WriteFrames(rb, data, wPos, frameCount)
                 IN [rb |-> [rb1 EXCEPT !.writePos = BitAnd(wPos + frameCount, rb.capacityMask),
                                        !.stats.totalWritten = @ + frameCount],
                     ret |-> TRUE]

\* bool Write(const T* data, uint32_t frameCount)
RingWrite(rb, data, frameCount) ==
    IF rb.buffer = NULL \/ data = NULL \/ frameCount = 0
    THEN [rb |-> rb, ret |-> FALSE]
    ELSE LET wPos == rb.writePos
             rPos == rb.readPos
             available == WriteSpace(rPos, wPos, rb.capacityMask)
         IN IF frameCount > available
            THEN [rb |-> [rb EXCEPT !.stats.overruns = @ + 1], ret |-> FALSE]
            ELSE LET rb1 == WriteFrames(rb, data, wPos, frameCount)
                 IN [rb |-> [rb1 EXCEPT !.writePos = BitAnd(wPos + frameCount, rb.capacityMask),
                                        !.stats.totalWritten = @ + frameCount],
                     ret |-> TRUE]

\* one iteration of the copy loop of Read: the i-th slot after rPos into
\* frame i of data, channel by channel
ReadFrame(rb, data, rPos, i) ==
    LET bufferOffset == FrameIdx(rb, rPos, i) * rb.channels
        \* the array after the iterations for channels 0..n-1
        RECURSIVE Ch(_)
        Ch(n) ==
            IF n <= 0 THEN data
            ELSE MemStore(Ch(n - 1), i * rb.channels + (n - 1),
                          MemLoad(rb.buffer, bufferOffset + (n - 1)))
    IN Ch(rb.channels)

\* the copy loop of Read, iterations i = 0..toRead-1: iteration i stores
\* the cells of frame i of data; all other cells are untouched
ReadFrames(rb, data, rPos, toRead) ==
    [data EXCEPT !.m =
        [c \in 0..(toRead * rb.channels - 1) |->
            MemLoad(ReadFrame(rb, data, rPos, c \div rb.channels), c)]
        @@ @]

\* variant of RingRead: a short but non-empty read is not counted as underrun
RingReadNoShortCount(rb, data, frameCount) ==
    IF rb.buffer = NULL \/ data = NULL \/ frameCount = 0
    THEN [rb |-> rb, ret |-> 0, data |-> data]
    ELSE LET wPos == rb.writePos
             rPos == rb.readPos
             available == ReadAvail(wPos, rPos, rb.capacityMask)
         IN IF available = 0
            THEN [rb |-> [rb EXCEPT !.stats.underruns = @ + 1], ret |-> 0, data |-> data]
            ELSE LET toRead == IF frameCount < available THEN frameCount ELSE available
                     out == ReadFrames(rb, data, rPos, toRead)
                 IN [rb |-> [rb EXCEPT !.readPos = BitAnd(rPos + toRead, rb.capacityMask),
                                       !.stats.totalRead = @ + toRead],
                     ret |-> toRead, data |-> out]

\* variant of RingRead: totalRead counts the frames asked for
RingReadCountsRequest(rb, data, frameCount) ==
    IF rb.buffer = NULL \/ data = NULL \/ frameCount = 0
    THEN [rb |-> rb, ret |-> 0, data |-> data]
    ELSE LET wPos == rb.writePos
             rPos == rb.readPos
             available == ReadAvail(wPos, rPos, rb.capacityMask)
         IN IF available = 0
            THEN [rb |-> [rb EXCEPT !.stats.underruns = @ + 1], ret |-> 0, data |-> data]
            ELSE LET toRead == IF frameCount < available THEN frameCount ELSE available
                     out == ReadFrames(rb, data, rPos, toRead)
                     rb1 == [rb EXCEPT !.readPos = BitAnd(rPos + toRead, rb.capacityMask),
                                       !.stats.totalRead = @ + frameCount]
                 IN [rb |-> IF toRead < frameCount
                            THEN [rb1 EXCEPT !.stats.underruns = @ + 1]
                            ELSE rb1,
                     ret |-> toRead, data |-> out]

\* uint32_t Read(T* data, uint32_t frameCount); data is the caller's array
\* as it is before the call, the result carries it as it is after the call
RingRead(rb, data, frameCount) ==
    IF rb.buffer = NULL \/ data = NULL \/ frameCount = 0
    THEN [rb |-> rb, ret |-> 0, data |-> data]
    ELSE LET wPos == rb.writePos
             rPos == rb.readPos
             available == ReadAvail(wPos, rPos, rb.capacityMask)
         IN IF available = 0
            THEN [rb |-> [rb EXCEPT !.stats.underruns = @ + 1], ret |-> 0, data |-> data]
            ELSE LET toRead == IF frameCount < available THEN frameCount ELSE available
                     out == ReadFrames(rb, data, rPos, toRead)
                     rb1 == [rb EXCEPT !.readPos = BitAnd(rPos + toRead, rb.capacityMask),
                                       !.stats.totalRead = @ + toRead]
                 IN [rb |-> IF toRead < frameCount
                            THEN [rb1 EXCEPT !.stats.underruns = @ + 1]
                            ELSE rb1,
                     ret |-> toRead, data |-> out]

\* ------------------------------------------------------------------------
\* Numbers of type double and float
\*
\* A rate (double, Hz) is an integer number of 1/RateScale Hz.  The
\* resampler's position (double, input frames) is an integer number of
\* 1/(outputRate * RateScale) frames, so that position += inputRate /
\* outputRate is exact.  An output sample (float) is an integer number of
\* 1/(32768 * FloatScale); the cast to float is the rounding to that grid.
\* ------------------------------------------------------------------------

RateScale == 100

FloatScale == 16

\* an int converted to a rate
RateOfInt(hz) == hz * RateScale

\* (int)x of a non-negative or negative fixed-point number: towards zero
TruncDiv(x, den) == IF x >= 0 THEN x \div den ELSE -((-x) \div den)

Min(a, b) == IF a < b THEN a ELSE b

\* x / den rounded to the nearest integer
RoundDiv(x, den) == (2 * x + den) \div (2 * den)

\* ------------------------------------------------------------------------
\* AudioResampler
\* ------------------------------------------------------------------------

\* AudioResampler(): the state after construction
NewResampler == [initialized |-> FALSE, inputRate |-> 0, outputRate |-> 0, channels |-> 0,
                 position |-> 0, lastFrame |-> NULL]

\* the null pointer to an AudioResampler
NullResampler == [NewResampler EXCEPT !.channels = -1]

\* bool Initialize(double inRate, int outRate, int numChannels); allocOk is
\* the outcome of new uae_s16[channels]
ResamplerInitialize(rs, inRate, outRate, numChannels, allocOk) ==
    IF inRate <= 0 \/ outRate <= 0 \/ numChannels <= 0
    THEN [rs |-> rs, ret |-> FALSE]
    ELSE LET rs1 == [rs EXCEPT !.inputRate = inRate, !.outputRate = outRate,
                               !.channels = numChannels, !.position = 0]
         IN IF ~allocOk
            THEN [rs |-> [rs1 EXCEPT !.lastFrame = NULL], ret |-> FALSE]
            ELSE [rs |-> [rs1 EXCEPT !.lastFrame = MemZero(numChannels),
                                     !.initialized = TRUE],
                  ret |-> TRUE]

ResamplerShutdown(rs) == [rs EXCEPT !.lastFrame = NULL, !.initialized = FALSE, !.position = 0]

SetInputRate(rs, newInputRate) == [rs EXCEPT !.inputRate = newInputRate]

\* the unit of position: one input frame
PosDen(rs) == rs.outputRate * RateScale

\* (float)((sample0 + (sample1 - sample0) * frac) / 32768.0), frac = fracNum / den
Interpolate(sample0, sample1, fracNum, den) ==
    sample0 * FloatScale + RoundDiv((sample1 - sample0) * fracNum * FloatScale, den)

\* a loop that runs while outputFrames <= outputCapacity
RECURSIVE ProcessLoopOffByOne(_, _, _, _, _)
ProcessLoopOffByOne(rs, inputFrames, outputCapacity, outputFrames, position) ==
    IF ~(outputFrames <= outputCapacity)
       \/ TruncDiv(position, PosDen(rs)) >= inputFrames - 1
    THEN [outputFrames |-> outputFrames, position |-> position]
    ELSE ProcessLoopOffByOne(rs, inputFrames, outputCapacity, outputFrames + 1,
                             position + rs.inputRate)

\* the while loop of Process (lines 71-99) without its stores: the number of
\* frames produced and the position when the loop is left
RECURSIVE ProcessLoop(_, _, _, _, _)
ProcessLoop(rs, inputFrames, outputCapacity, outputFrames, position) ==
    IF ~(outputFrames < outputCapacity)
       \/ TruncDiv(position, PosDen(rs)) >= inputFrames - 1
    THEN [outputFrames |-> outputFrames, position |-> position]
    ELSE ProcessLoop(rs, inputFrames, outputCapacity, outputFrames + 1,
                     position + rs.inputRate)

\* the body of the loop for output frame k (lines 73-93); the position of
\* the k-th iteration is the starting position advanced k times by ratio
ProcessFrame(rs, input, output, k) ==
    LET position == rs.position + k * rs.inputRate
        inputIndex == TruncDiv(position, PosDen(rs))
        frac == position - inputIndex * PosDen(rs)
        \* the output after the iterations for channels 0..n-1
        RECURSIVE Ch(_)
        Ch(n) ==
            IF n <= 0 THEN output
            ELSE MemStore(Ch(n - 1), k * rs.channels + (n - 1),
                          Interpolate(MemLoad(input, inputIndex * rs.channels + (n - 1)),
                                      MemLoad(input, (inputIndex + 1) * rs.channels + (n - 1)),
                                      frac, PosDen(rs)))
    IN Ch(rs.channels)

\* the output array after the iterations for output frames
\* 0..outputFrames-1: iteration k stores the cells of frame k of output
ProcessFrames(rs, input, output, outputFrames) ==
    [output EXCEPT !.m =
        [c \in 0..(outputFrames * rs.channels - 1) |->
            MemLoad(ProcessFrame(rs, input, output, c \div rs.channels), c)]
        @@ @]

\* lastFrame[ch] = input[lastInputFrame * channels + ch] (lines 102-107)
SaveLastFrame(rs, input, inputFrames) ==
    IF inputFrames > 0
    THEN LET RECURSIVE Ch(_)
             Ch(n) ==
                 IF n <= 0 THEN rs.lastFrame
                 ELSE MemStore(Ch(n - 1), n - 1,
                               MemLoad(input, (inputFrames - 1) * rs.channels + (n - 1)))
         IN Ch(rs.channels)
    ELSE rs.lastFrame

\* int Process(input, inputFrames, output, outputCapacity)
ResamplerProcess(rs, input, inputFrames, output, outputCapacity) ==
    IF ~rs.initialized \/ input = NULL \/ output = NULL \/ inputFrames = 0 \/ outputCapacity = 0
    THEN [rs |-> rs, output |-> output, ret |-> 0]
    ELSE LET r == ProcessLoop(rs, inputFrames, outputCapacity, 0, rs.position)
             pos == r.position - inputFrames * PosDen(rs)
         IN [rs |-> [rs EXCEPT !.lastFrame = SaveLastFrame(rs, input, inputFrames),
                               !.position = IF pos < 0 THEN 0 ELSE pos],
             output |-> ProcessFrames(rs, input, output, r.outputFrames),
             ret |-> r.outputFrames]

\* ------------------------------------------------------------------------
\* AudioLayer2
\* ------------------------------------------------------------------------

\* the null pointer to an AudioRingBuffer
NullRing == [NewRing EXCEPT !.capacity = -1]

\* RateMeasurement(): lastLogTime, which only paces a log line, is left out
NewRateMeasurement == [currentRate |-> 0, emaRate |-> 0, sampleCount |-> 0]

\* extern frame_time_t syncbase: cycles per second; with this value rates of
\* 1000, 2000 and 44100 Hz take a whole number of cycles per sample
syncbase == 4410000

\* the counters of g_audioDebugVars that the bridge itself increments
NewDebugVars == [pushSampleCalls |-> 0, resampleCalls |-> 0, totalProcessCalls |-> 0,
                 paulaFramesGenerated |-> 0, layer2Overruns |-> 0, layer2Underruns |-> 0]

\* AudioLayer2(): the state after construction
NewLayer2 ==
    [initialized |-> FALSE,
     config |-> [targetSampleRate |-> 0, channels |-> 0, ringBufferFrames |-> 0],
     inputBuffer |-> NullRing, ringBuffer |-> NullRing, resampler |-> NullResampler,
     tempBuffer |-> NULL, tempBufferCapacity |-> 0,
     inputTempBuffer |-> NULL, inputTempCapacity |-> 0,
     lastPaulaRate |-> 0, rateMeasurement |-> NewRateMeasurement]

\* void Shutdown()
Layer2Shutdown(b) ==
    IF ~b.initialized THEN b
    ELSE [b EXCEPT !.inputBuffer = NullRing, !.ringBuffer = NullRing,
                   !.resampler = NullResampler,
                   !.tempBuffer = NULL, !.inputTempBuffer = NULL,
                   !.tempBufferCapacity = 0, !.inputTempCapacity = 0,
                   !.initialized = FALSE]

\* the allocations of Initialize whose failure the code handles, in order
AllocSteps == <<"inputBuffer", "ringBuffer", "tempBuffer", "inputTempBuffer">>

\* bool Initialize(const AudioLayer2Config& cfg); failAt names the allocation
\* that fails, "none" if all succeed
Layer2Initialize(b0, cfg, failAt) ==
    LET b1 == IF b0.initialized THEN Layer2Shutdown(b0) ELSE b0
        b2 == [b1 EXCEPT !.config = cfg, !.rateMeasurement = NewRateMeasurement]
    IN IF cfg.targetSampleRate <= 0 \/ cfg.channels <= 0 \/ cfg.ringBufferFrames <= 0
       THEN [b |-> b2, ret |-> FALSE]
       ELSE
       LET inputCapacity == IF cfg.targetSampleRate \div 100 < 16 THEN 16
                            ELSE cfg.targetSampleRate \div 100
           inR == RingInitialize(NewRing, U32(inputCapacity), cfg.channels, failAt # "inputBuffer")
       IN IF ~inR.ret
          THEN [b |-> [b2 EXCEPT !.inputBuffer = NullRing], ret |-> FALSE]
          ELSE
          LET b3 == [b2 EXCEPT !.inputBuffer = inR.rb]
              outR == RingInitialize(NewRing, U32(cfg.ringBufferFrames), cfg.channels,
                                     failAt # "ringBuffer")
          IN IF ~outR.ret
             THEN [b |-> [b3 EXCEPT !.ringBuffer = NullRing], ret |-> FALSE]
             ELSE
             LET b4 == [b3 EXCEPT !.ringBuffer = outR.rb, !.resampler = NewResampler,
                                  !.tempBufferCapacity = 2048]
             IN IF failAt = "tempBuffer"
                THEN [b |-> [b4 EXCEPT !.tempBuffer = NULL, !.inputBuffer = NullRing,
                                       !.ringBuffer = NullRing, !.resampler = NullResampler],
                      ret |-> FALSE]
                ELSE
                LET b5 == [b4 EXCEPT !.tempBuffer = MemUninit(2048 * cfg.channels),
                                     !.inputTempCapacity = 128]
                IN IF failAt = "inputTempBuffer"
                   THEN [b |-> [b5 EXCEPT !.inputTempBuffer = NULL, !.tempBuffer = NULL,
                                          !.inputBuffer = NullRing, !.ringBuffer = NullRing,
                                          !.resampler = NullResampler],
                         ret |-> FALSE]
                   ELSE [b |-> [b5 EXCEPT !.inputTempBuffer = MemUninit(128 * cfg.channels),
                                          !.initialized = TRUE],
                         ret |-> TRUE]

\* the float and the double that are not a number: every comparison with
\* NaN is false and every sum and product with NaN is NaN.  No other float
\* of the model has this value (a negative cycles_per_sample is -2205).
NaN == -1

\* syncbase / cycles_per_sample
InstantRate(cycles_per_sample) ==
    IF cycles_per_sample = NaN THEN NaN ELSE RoundDiv(syncbase * RateScale, cycles_per_sample)

\* config.targetSampleRate * 0.5 and config.targetSampleRate * 1.5
MinRate(b) == (b.config.targetSampleRate * RateScale) \div 2

MaxRate(b) == (b.config.targetSampleRate * RateScale * 3) \div 2

\* alpha * instantRate + (1.0 - alpha) * emaRate, computed as
\* emaRate + alpha * (instantRate - emaRate)
EmaUpdate(emaRate, instantRate) ==
    IF emaRate = NaN \/ instantRate = NaN THEN NaN
    ELSE emaRate + RoundDiv(instantRate - emaRate, 10000)

\* an estimator that rejects only the rates below minRate
UpdateRateMeasurementNoUpperBound(b, cycles_per_sample) ==
    IF cycles_per_sample # NaN /\ cycles_per_sample <= 0 THEN b
    ELSE LET instantRate == InstantRate(cycles_per_sample)
             rm == b.rateMeasurement
         IN IF instantRate # NaN /\ instantRate < MinRate(b)
            THEN b
            ELSE IF rm.currentRate = 0
            THEN [b EXCEPT !.rateMeasurement =
                      [currentRate |-> instantRate, emaRate |-> instantRate,
                       sampleCount |-> rm.sampleCount + 1]]
            ELSE LET ema == EmaUpdate(rm.emaRate, instantRate)
                 IN [b EXCEPT !.rateMeasurement =
                        [currentRate |-> ema, emaRate |-> ema,
                         sampleCount |-> rm.sampleCount + 1]]

\* void UpdateRateMeasurement(float cycles_per_sample)
UpdateRateMeasurement(b, cycles_per_sample) ==
    IF cycles_per_sample # NaN /\ cycles_per_sample <= 0 THEN b
    ELSE LET instantRate == InstantRate(cycles_per_sample)
             rm == b.rateMeasurement
         IN IF instantRate # NaN /\ (instantRate < MinRate(b) \/ instantRate > MaxRate(b))
            THEN b
            ELSE IF rm.currentRate = 0
            THEN [b EXCEPT !.rateMeasurement =
                      [currentRate |-> instantRate, emaRate |-> instantRate,
                       sampleCount |-> rm.sampleCount + 1]]
            ELSE LET ema == EmaUpdate(rm.emaRate, instantRate)
                 IN [b EXCEPT !.rateMeasurement =
                        [currentRate |-> ema, emaRate |-> ema,
                         sampleCount |-> rm.sampleCount + 1]]

\* a fill computed from the write position alone
RingFillPercentWritePos(rb) ==
    IF rb.capacity = 0 THEN [num |-> 0, den |-> 1]
    ELSE [num |-> rb.writePos, den |-> rb.capacity]

\* float GetFillPercent() of a ring, as the fraction num / den
RingFillPercent(rb) ==
    IF rb.capacity = 0 THEN [num |-> 0, den |-> 1]
    ELSE [num |-> GetAvailableRead(rb), den |-> rb.capacity]

\* float GetBufferFillPercent() const
GetBufferFillPercent(b) ==
    IF ~b.initialized \/ b.ringBuffer = NullRing THEN [num |-> 0, den |-> 1]
    ELSE RingFillPercent(b.ringBuffer)

\* delete[] tempBuffer; tempBufferCapacity = frames * 2; tempBuffer = new
\* float[...] when frames > tempBufferCapacity (lines 310-315 and 404-412)
GrowTemp(b, frames) ==
    IF frames > b.tempBufferCapacity
    THEN [b EXCEPT !.tempBufferCapacity = frames * 2,
                   !.tempBuffer = MemUninit(frames * 2 * b.config.channels)]
    ELSE b

\* toProcess with the limit of a chunk at 8 frames
DrainChunkOfEight(b) ==
    IF GetAvailableRead(b.inputBuffer) > 8 THEN 8 ELSE GetAvailableRead(b.inputBuffer)

\* toProcess (lines 270-273)
DrainChunk(b) ==
    IF GetAvailableRead(b.inputBuffer) > 128 THEN 128 ELSE GetAvailableRead(b.inputBuffer)

\* the scratch array for the frames read from the input ring (lines 277-281)
GrowInputTemp(b, toProcess) ==
    IF toProcess > b.inputTempCapacity
    THEN [b EXCEPT !.inputTempCapacity = toProcess * 2,
                   !.inputTempBuffer = MemUninit(toProcess * 2 * b.config.channels)]
    ELSE b

\* initialRate and inputRate (lines 289-291 and 304-306)
DrainInputRate(b) ==
    IF b.rateMeasurement.currentRate > 0 THEN b.rateMeasurement.currentRate
    ELSE RateOfInt(b.config.targetSampleRate)

\* the resampler is initialised, or given the measured rate (lines 288-302);
\* yields the resampler and whether the drain goes on
DrainConfigure(b, allocOk) ==
    IF ~b.resampler.initialized
    THEN ResamplerInitialize(b.resampler, DrainInputRate(b), b.config.targetSampleRate,
                             b.config.channels, allocOk)
    ELSE [rs |-> IF b.rateMeasurement.currentRate > 0
                 THEN SetInputRate(b.resampler, b.rateMeasurement.currentRate)
                 ELSE b.resampler,
          ret |-> TRUE]

\* expectedOutput (lines 307-308)
ExpectedOutput(b, read) ==
    (read * b.config.targetSampleRate * RateScale) \div DrainInputRate(b) + 32

\* the resampled frames go to the output ring, which gives up its oldest
\* frames when the batch does not fit
DrainWriteDropOldest(b, dbg, resampled) ==
    IF resampled > 0
    THEN LET w == RingWrite(b.ringBuffer, b.tempBuffer, resampled)
             rd == RingRead(w.rb, MemUninit(resampled * b.config.channels), resampled)
             w2 == RingWrite(rd.rb, b.tempBuffer, resampled)
         IN [b |-> [b EXCEPT !.ringBuffer = IF w.ret THEN w.rb ELSE w2.rb],
             dbg |-> IF w.ret THEN dbg ELSE [dbg EXCEPT !.layer2Overruns = @ + 1]]
    ELSE [b |-> b, dbg |-> dbg]

\* the resampled frames go to the output ring (lines 324-334)
DrainWrite(b, dbg, resampled) ==
    IF resampled > 0
    THEN LET w == RingWrite(b.ringBuffer, b.tempBuffer, resampled)
         IN [b |-> [b EXCEPT !.ringBuffer = w.rb],
             dbg |-> IF w.ret THEN dbg ELSE [dbg EXCEPT !.layer2Overruns = @ + 1]]
    ELSE [b |-> b, dbg |-> dbg]

\* resampler->Process(inputTempBuffer, read, tempBuffer, expectedOutput) and
\* what follows (lines 317-334)
DrainProcess(b, dbg, read, expectedOutput) ==
    LET pr == ResamplerProcess(b.resampler, b.inputTempBuffer, read, b.tempBuffer,
                               expectedOutput)
    IN DrainWrite([b EXCEPT !.resampler = pr.rs, !.tempBuffer = pr.output], dbg, pr.ret)

\* what follows the Read of the input ring, which returned read (lines 284-334)
DrainResample(b, dbg, read, allocOk) ==
    IF read <= 0 THEN [b |-> b, dbg |-> dbg]
    ELSE LET cf == DrainConfigure(b, allocOk)
         IN IF ~cf.ret
            THEN [b |-> [b EXCEPT !.resampler = cf.rs], dbg |-> dbg]
            ELSE DrainProcess(GrowTemp([b EXCEPT !.resampler = cf.rs],
                                       ExpectedOutput(b, read)),
                              dbg, read, ExpectedOutput(b, read))

\* inputBuffer->Read(inputTempBuffer, toProcess) and what follows (lines 283-334)
DrainRead(b, dbg, toProcess, allocOk) ==
    LET rd == RingRead(b.inputBuffer, b.inputTempBuffer, toProcess)
    IN DrainResample([b EXCEPT !.inputBuffer = rd.rb, !.inputTempBuffer = rd.data],
                     dbg, rd.ret, allocOk)

\* void ResampleInputToOutput(); allocOk is the outcome of the allocation in
\* the resampler's Initialize.  Yields the bridge and the debug counters.
ResampleInputToOutput(b, dbg, allocOk) ==
    IF ~b.initialized \/ b.inputBuffer = NullRing \/ b.ringBuffer = NullRing
       \/ b.resampler = NullResampler
    THEN [b |-> b, dbg |-> dbg]
    ELSE IF GetAvailableRead(b.inputBuffer) < 16 THEN [b |-> b, dbg |-> dbg]
    ELSE DrainRead(GrowInputTemp(b, DrainChunk(b)),
                   [dbg EXCEPT !.resampleCalls = @ + 1], DrainChunk(b), allocOk)

\* int16_t stereo[2] = {left, right}
StereoFrame(left, right) == [size |-> 2, def |-> Garbage, m |-> (0 :> left) @@ (1 :> right)]

\* PushSample that gives up the pushed frame when the input ring is full
PushSampleDropNewest(b, dbg, left, right, cycles_per_sample, allocOk) ==
    IF ~b.initialized \/ b.inputBuffer = NullRing THEN [b |-> b, dbg |-> dbg]
    ELSE
    LET dbg1 == [dbg EXCEPT !.pushSampleCalls = @ + 1]
        w1 == RingWrite(b.inputBuffer, StereoFrame(left, right), 1)
        b1 == [b EXCEPT !.inputBuffer = w1.rb]
        dbg2 == IF w1.ret THEN dbg1 ELSE [dbg1 EXCEPT !.layer2Overruns = @ + 1]
    IN ResampleInputToOutput(UpdateRateMeasurement(b1, cycles_per_sample), dbg2, allocOk)

\* PushSample that tests the input ring but not the initialized flag
PushSampleNoInitCheck(b, dbg, left, right, cycles_per_sample, allocOk) ==
    IF b.inputBuffer = NullRing THEN [b |-> b, dbg |-> dbg]
    ELSE
    LET dbg1 == [dbg EXCEPT !.pushSampleCalls = @ + 1]
        stereo == StereoFrame(left, right)
        w1 == RingWrite(b.inputBuffer, stereo, 1)
        rd == RingRead(w1.rb, MemUninit(2), 1)
        w2 == RingWrite(rd.rb, stereo, 1)
        b1 == [b EXCEPT !.inputBuffer = IF w1.ret THEN w1.rb ELSE w2.rb]
        dbg2 == IF w1.ret THEN dbg1 ELSE [dbg1 EXCEPT !.layer2Overruns = @ + 1]
    IN ResampleInputToOutput(UpdateRateMeasurement(b1, cycles_per_sample), dbg2, allocOk)

\* void PushSample(int16_t left, int16_t right, float cycles_per_sample)
PushSample(b, dbg, left, right, cycles_per_sample, allocOk) ==
    IF ~b.initialized \/ b.inputBuffer = NullRing THEN [b |-> b, dbg |-> dbg]
    ELSE
    LET dbg1 == [dbg EXCEPT !.pushSampleCalls = @ + 1]
        stereo == StereoFrame(left, right)
        w1 == RingWrite(b.inputBuffer, stereo, 1)
        rd == RingRead(w1.rb, MemUninit(2), 1)
        w2 == RingWrite(rd.rb, stereo, 1)
        b1 == [b EXCEPT !.inputBuffer = IF w1.ret THEN w1.rb ELSE w2.rb]
        dbg2 == IF w1.ret THEN dbg1 ELSE [dbg1 EXCEPT !.layer2Overruns = @ + 1]
    IN ResampleInputToOutput(UpdateRateMeasurement(b1, cycles_per_sample), dbg2, allocOk)

\* PullSamples that leaves the tail of a short read as it was
PullSamplesNoZeroFill(b, output, requestedFrames) ==
    IF ~b.initialized \/ output = NULL \/ b.ringBuffer = NullRing
    THEN [b |-> b, output |-> output, ret |-> 0]
    ELSE LET rd == RingRead(b.ringBuffer, output, requestedFrames)
         IN [b |-> [b EXCEPT !.ringBuffer = rd.rb], output |-> rd.data,
             ret |-> requestedFrames]

\* PullSamples that rewinds both positions of the emptied ring after a short
\* read
PullSamplesRewind(b, output, requestedFrames) ==
    IF ~b.initialized \/ output = NULL \/ b.ringBuffer = NullRing
    THEN [b |-> b, output |-> output, ret |-> 0]
    ELSE LET rd == RingRead(b.ringBuffer, output, requestedFrames)
             framesRead == rd.ret
             samplesRead == framesRead * b.config.channels
             samplesTotal == requestedFrames * b.config.channels
         IN IF framesRead < requestedFrames
            THEN [b |-> [b EXCEPT !.ringBuffer = [rd.rb EXCEPT !.writePos = 0, !.readPos = 0]],
                  output |-> MemFill(rd.data, samplesRead, samplesTotal - samplesRead, 0),
                  ret |-> requestedFrames]
            ELSE [b |-> [b EXCEPT !.ringBuffer = rd.rb], output |-> rd.data,
                  ret |-> requestedFrames]

\* int PullSamples(float* output, int requestedFrames); output is the
\* caller's array before the call
PullSamples(b, output, requestedFrames) ==
    IF ~b.initialized \/ output = NULL \/ b.ringBuffer = NullRing
    THEN [b |-> b, output |-> output, ret |-> 0]
    ELSE LET rd == RingRead(b.ringBuffer, output, requestedFrames)
             framesRead == rd.ret
             samplesRead == framesRead * b.config.channels
             samplesTotal == requestedFrames * b.config.channels
         IN [b |-> [b EXCEPT !.ringBuffer = rd.rb],
             output |-> IF framesRead < requestedFrames
                        THEN MemFill(rd.data, samplesRead, samplesTotal - samplesRead, 0)
                        ELSE rd.data,
             ret |-> requestedFrames]

\* paulaRate * driftAdjustment for driftAdjustment = 1 + tenThousandths / 10000
DriftAdjusted(paulaRate, tenThousandths) ==
    paulaRate + RoundDiv(paulaRate * tenThousandths, 10000)

\* driftAdjustment - 1 in ten-thousandths (lines 370-375): -2 below a fill
\* of 0.20, 2 above a fill of 0.30
DriftOf(b) ==
    LET fill == GetBufferFillPercent(b)
    IN IF 5 * fill.num < fill.den THEN -2
       ELSE IF 10 * fill.num > 3 * fill.den THEN 2
       ELSE 0

\* fabs(paulaRate - lastPaulaRate) > 100.0
RateJump(b, paulaRate) ==
    (IF paulaRate < b.lastPaulaRate THEN b.lastPaulaRate - paulaRate
     ELSE paulaRate - b.lastPaulaRate) > RateOfInt(100)

\* the resampler is re-initialised or given the rate (lines 377-386)
PaulaConfigure(b, paulaRate, allocOk) ==
    IF b.resampler = NullResampler THEN b
    ELSE IF RateJump(b, paulaRate)
    THEN [b EXCEPT !.resampler =
              ResamplerInitialize(ResamplerShutdown(b.resampler),
                                  DriftAdjusted(paulaRate, DriftOf(b)),
                                  b.config.targetSampleRate, b.config.channels, allocOk).rs,
                   !.lastPaulaRate = paulaRate]
    ELSE [b EXCEPT !.resampler = SetInputRate(b.resampler,
                                              DriftAdjusted(paulaRate, DriftOf(b)))]

\* outputFrames (line 397)
PaulaOutputFrames(b, frameCount, paulaRate) ==
    TruncDiv(frameCount * b.config.targetSampleRate * RateScale, paulaRate) + 10

\* the debug variables refreshed once a second (lines 449-467)
PaulaStats(b, dbg, secondElapsed) ==
    IF secondElapsed /\ b.ringBuffer # NullRing
    THEN [dbg EXCEPT !.layer2Underruns = b.ringBuffer.stats.underruns,
                     !.layer2Overruns = b.ringBuffer.stats.overruns]
    ELSE dbg

\* the resampled frames go to the output ring (lines 433-467)
PaulaWrite(b, dbg, resampledFrames, secondElapsed) ==
    IF resampledFrames = 0 THEN [b |-> b, dbg |-> dbg]
    ELSE IF b.ringBuffer = NullRing
    THEN [b |-> b, dbg |-> PaulaStats(b, dbg, secondElapsed)]
    ELSE LET w == RingWrite(b.ringBuffer, b.tempBuffer, resampledFrames)
         IN [b |-> [b EXCEPT !.ringBuffer = w.rb],
             dbg |-> PaulaStats([b EXCEPT !.ringBuffer = w.rb],
                                IF w.ret THEN dbg
                                ELSE [dbg EXCEPT !.layer2Overruns = w.rb.stats.overruns],
                                secondElapsed)]

\* resampler->Process(samples, frameCount, tempBuffer, outputFrames) and
\* what follows (lines 414-467)
PaulaProcess(b, dbg, samples, frameCount, outputFrames, secondElapsed) ==
    IF b.resampler = NullResampler THEN [b |-> b, dbg |-> dbg]
    ELSE LET pr == ResamplerProcess(b.resampler, samples, frameCount, b.tempBuffer,
                                    outputFrames)
         IN IF pr.ret > 10000
            THEN [b |-> [b EXCEPT !.resampler = pr.rs, !.tempBuffer = pr.output],
                  dbg |-> dbg]
            ELSE PaulaWrite([b EXCEPT !.resampler = pr.rs, !.tempBuffer = pr.output],
                            dbg, pr.ret, secondElapsed)

\* what ProcessFromPaula does for a rate within range (lines 365-467)
PaulaResample(b, dbg, samples, frameCount, paulaRate, allocOk, secondElapsed) ==
    PaulaProcess(GrowTemp(PaulaConfigure(b, paulaRate, allocOk),
                          PaulaOutputFrames(b, frameCount, paulaRate)),
                 dbg, samples, frameCount, PaulaOutputFrames(b, frameCount, paulaRate),
                 secondElapsed)

\* paulaRate = syncCyclesPerSec / cpuCyclesPerSample
PaulaRate(cpuCyclesPerSample, syncCyclesPerSec) ==
    RoundDiv(syncCyclesPerSec * RateScale, cpuCyclesPerSample)

\* void ProcessFromPaula(samples, frameCount, cpuCyclesPerSample,
\* syncCyclesPerSec); allocOk is the outcome of the allocation in the
\* resampler's Initialize, secondElapsed that of now - lastLogTime >= 1000
ProcessFromPaula(b, dbg, samples, frameCount, cpuCyclesPerSample, syncCyclesPerSec, allocOk, secondElapsed) ==
    IF ~b.initialized \/ samples = NULL \/ frameCount = 0 THEN [b |-> b, dbg |-> dbg]
    ELSE IF \/ PaulaRate(cpuCyclesPerSample, syncCyclesPerSec) < RateOfInt(1000)
            \/ PaulaRate(cpuCyclesPerSample, syncCyclesPerSec) > RateOfInt(200000)
    THEN [b |-> b, dbg |-> [dbg EXCEPT !.totalProcessCalls = @ + 1]]
    ELSE PaulaResample(b, [dbg EXCEPT !.totalProcessCalls = @ + 1,
                                      !.paulaFramesGenerated = @ + frameCount],
                       samples, frameCount,
                       PaulaRate(cpuCyclesPerSample, syncCyclesPerSec), allocOk,
                       secondElapsed)

\* ------------------------------------------------------------------------
\* SpecRing: one AudioRingBuffer<T>, whole calls
\* ------------------------------------------------------------------------

VARIABLES
    ring,      \* the AudioRingBuffer object
    rcall,     \* the last call made on it: operation, arguments, result
    rops,      \* number of calls made so far
    rinits,    \* number of Initialize calls made so far
    rnext,     \* number of samples handed to Write so far (they are numbered)
    rreset     \* ResetStats was called after the last Initialize that returned true

ringVars == <<ring, rcall, rops, rinits, rnext, rreset>>

NoCall == [op |-> "new", n |-> U32Zero, channels |-> 0, frameCount |-> 0,
           data |-> NULL, ret |-> FALSE, count |-> 0, returned |-> TRUE]

\* capacity requests near the top of the uint32_t range: 2^29 - 1 and
\* 2^31 + 1
BigRequests == {[hi |-> 8191, lo |-> 65535], [hi |-> 32768, lo |-> 1]}

Requests == {U32(k) : k \in 0..MaxRequested} \cup BigRequests

\* the caller's array of frameCount frames, numbered samples
SourceData(first, frameCount, channels) ==
    [size |-> frameCount * channels, def |-> Garbage,
     m |-> [j \in 0..(frameCount * channels - 1) |-> first + j + 1]]

\* the caller's destination array of frameCount frames before the call
FreshData(frameCount, channels) == MemUninit(frameCount * channels)

\* the arguments of Write and Read: a frame count with an array, or a null
\* pointer
TransferArgs == {<<frameCount, FALSE>> : frameCount \in 0..MaxFrames} \cup {<<1, TRUE>>}

RingCanCall == rops < MaxRingOps /\ rcall.returned

RingInit ==
    /\ ring = NewRing
    /\ rcall = NoCall
    /\ rops = 0
    /\ rinits = 0
    /\ rnext = 0
    /\ rreset = FALSE

DoRingInitialize(n, ch, allocOk) ==
    /\ RingCanCall
    /\ rinits < MaxRingInits
    /\ LET r == RingInitialize(ring, n, ch, allocOk)
       IN /\ ring' = r.rb
          /\ rcall' = [NoCall EXCEPT !.op = "Initialize", !.n = n, !.channels = ch,
                                     !.ret = r.ret, !.returned = r.returned]
          /\ rreset' = IF r.ret THEN FALSE ELSE rreset
    /\ rops' = rops + 1
    /\ rinits' = rinits + 1
    /\ UNCHANGED rnext

DoRingShutdown ==
    /\ RingCanCall
    /\ ring' = RingShutdown(ring)
    /\ rcall' = [NoCall EXCEPT !.op = "Shutdown"]
    /\ rops' = rops + 1
    /\ UNCHANGED <<rinits, rnext, rreset>>

DoRingResetStats ==
    /\ RingCanCall
    /\ ring' = ResetStats(ring)
    /\ rcall' = [NoCall EXCEPT !.op = "ResetStats"]
    /\ rops' = rops + 1
    /\ rreset' = TRUE
    /\ UNCHANGED <<rinits, rnext>>

DoRingWrite(frameCount, isNull) ==
    /\ RingCanCall
    /\ LET data == IF isNull THEN NULL ELSE SourceData(rnext, frameCount, ring.channels)
           r == RingWrite(ring, data, frameCount)
       IN /\ ring' = r.rb
          /\ rcall' = [NoCall EXCEPT !.op = "Write", !.frameCount = frameCount,
                                     !.data = data, !.ret = r.ret]
          /\ rnext' = IF isNull THEN rnext ELSE rnext + frameCount * ring.channels
    /\ rops' = rops + 1
    /\ UNCHANGED <<rinits, rreset>>

DoRingRead(frameCount, isNull) ==
    /\ RingCanCall
    /\ LET data == IF isNull THEN NULL ELSE FreshData(frameCount, ring.channels)
           r == RingRead(ring, data, frameCount)
       IN /\ ring' = r.rb
          /\ rcall' = [NoCall EXCEPT !.op = "Read", !.frameCount = frameCount,
                                     !.data = r.data, !.count = r.ret]
    /\ rops' = rops + 1
    /\ UNCHANGED <<rinits, rnext, rreset>>

RingNext ==
    \/ \E n \in Requests, ch \in 1..MaxRingChannels, allocOk \in BOOLEAN :
           DoRingInitialize(n, ch, allocOk)
    \/ DoRingShutdown
    \/ DoRingResetStats
    \/ \E a \in TransferArgs : DoRingWrite(a[1], a[2])
    \/ \E a \in TransferArgs : DoRingRead(a[1], a[2])

\* ------------------------------------------------------------------------
\* SpecSPSC: one initialised AudioRingBuffer<T>; a producer thread inside
\* Write and a consumer thread inside Read.  A step is one load of a
\* position, one copy of a frame, one store of a position or one update of
\* a counter.
\* ------------------------------------------------------------------------

VARIABLES
    sq,        \* the shared AudioRingBuffer object
    prod,      \* the producer: where it is in Write, and Write's locals
    cons,      \* the consumer: where it is in Read, and Read's locals
    wlog,      \* the frames of the Writes whose new position was stored, in order
    rlog,      \* the frames returned by the Reads, in call order
    snext      \* number of samples handed to Write so far (they are numbered)

spscVars == <<sq, prod, cons, wlog, rlog, snext>>

\* channel count of the shared ring
SpscChannels == 2

ProdIdle == [pc |-> "idle", data |-> NULL, frameCount |-> 0, wPos |-> 0, rPos |-> 0,
             i |-> 0, calls |-> 0]

ConsIdle == [pc |-> "idle", data |-> NULL, frameCount |-> 0, wPos |-> 0, rPos |-> 0,
             toRead |-> 0, i |-> 0, calls |-> 0]

\* frames 0..count-1 of an array, as a sequence of tuples of samples
FramesOf(data, count, channels) ==
    [k \in 1..count |-> [ch \in 1..channels |-> MemLoad(data, (k - 1) * channels + (ch - 1))]]

SpscInit ==
    /\ sq = RingInitialize(NewRing, U32(SpscRequested), SpscChannels, TRUE).rb
    /\ prod = ProdIdle
    /\ cons = ConsIdle
    /\ wlog = << >>
    /\ rlog = << >>
    /\ snext = 0

\* Write is called (line 119-120); a call with frameCount = 0 returns false
ProdCall(frameCount) ==
    /\ prod.pc = "idle"
    /\ prod.calls < MaxSpscWrites
    /\ LET data == SourceData(snext, frameCount, sq.channels)
       IN prod' = IF sq.buffer = NULL \/ data = NULL \/ frameCount = 0
                  THEN [prod EXCEPT !.calls = @ + 1]
                  ELSE [prod EXCEPT !.pc = "loadW", !.data = data,
                                    !.frameCount = frameCount, !.calls = @ + 1]
    /\ snext' = snext + frameCount * sq.channels
    /\ UNCHANGED <<sq, cons, wlog, rlog>>

\* wPos = writePos.load(relaxed) (line 122)
ProdLoadW ==
    /\ prod.pc = "loadW"
    /\ prod' = [prod EXCEPT !.pc = "loadR", !.wPos = sq.writePos]
    /\ UNCHANGED <<sq, cons, wlog, rlog, snext>>

\* rPos = readPos.load(acquire) and the test of the free space (lines 123-128)
ProdLoadR ==
    /\ prod.pc = "loadR"
    /\ LET rPos == sq.readPos
           available == WriteSpace(rPos, prod.wPos, sq.capacityMask)
       IN prod' = [prod EXCEPT !.rPos = rPos, !.i = 0,
                               !.pc = IF prod.frameCount > available THEN "overrun" ELSE "copy"]
    /\ UNCHANGED <<sq, cons, wlog, rlog, snext>>

\* stats.overruns++; return false (lines 130-131)
ProdOverrun ==
    /\ prod.pc = "overrun"
    /\ sq' = [sq EXCEPT !.stats.overruns = @ + 1]
    /\ prod' = [prod EXCEPT !.pc = "idle"]
    /\ UNCHANGED <<cons, wlog, rlog, snext>>

\* one iteration of the copy loop (lines 137-144)
ProdCopy ==
    /\ prod.pc = "copy"
    /\ prod.i < prod.frameCount
    /\ sq' = WriteFrame(sq, prod.data, prod.wPos, prod.i)
    /\ prod' = [prod EXCEPT !.i = @ + 1]
    /\ UNCHANGED <<cons, wlog, rlog, snext>>

\* writePos.store(..., release) (line 147)
ProdStoreW ==
    /\ prod.pc = "copy"
    /\ ~(prod.i < prod.frameCount)
    /\ sq' = [sq EXCEPT !.writePos = BitAnd(prod.wPos + prod.frameCount, sq.capacityMask)]
    /\ wlog' = wlog \o FramesOf(prod.data, prod.frameCount, sq.channels)
    /\ prod' = [prod EXCEPT !.pc = "stat"]
    /\ UNCHANGED <<cons, rlog, snext>>

\* stats.totalWritten += frameCount; return true (lines 149-150)
ProdStat ==
    /\ prod.pc = "stat"
    /\ sq' = [sq EXCEPT !.stats.totalWritten = @ + prod.frameCount]
    /\ prod' = [prod EXCEPT !.pc = "idle"]
    /\ UNCHANGED <<cons, wlog, rlog, snext>>

\* Read is called (line 154-155); a call with frameCount = 0 returns 0
ConsCall(frameCount) ==
    /\ cons.pc = "idle"
    /\ cons.calls < MaxSpscReads
    /\ LET data == FreshData(frameCount, sq.channels)
       IN cons' = IF sq.buffer = NULL \/ data = NULL \/ frameCount = 0
                  THEN [cons EXCEPT !.calls = @ + 1]
                  ELSE [cons EXCEPT !.pc = "loadW", !.data = data,
                                    !.frameCount = frameCount, !.calls = @ + 1]
    /\ UNCHANGED <<sq, prod, wlog, rlog, snext>>

\* wPos = writePos.load(acquire) (line 157)
ConsLoadW ==
    /\ cons.pc = "loadW"
    /\ cons' = [cons EXCEPT !.pc = "loadR", !.wPos = sq.writePos]
    /\ UNCHANGED <<sq, prod, wlog, rlog, snext>>

\* rPos = readPos.load(relaxed), the test for data and toRead (lines 158-171)
ConsLoadR ==
    /\ cons.pc = "loadR"
    /\ LET rPos == sq.readPos
           available == ReadAvail(cons.wPos, rPos, sq.capacityMask)
       IN cons' = [cons EXCEPT !.rPos = rPos, !.i = 0,
                               !.toRead = IF cons.frameCount < available
                                          THEN cons.frameCount ELSE available,
                               !.pc = IF available = 0 THEN "underrun" ELSE "copy"]
    /\ UNCHANGED <<sq, prod, wlog, rlog, snext>>

\* stats.underruns++; return 0 (lines 165-166)
ConsUnderrun ==
    /\ cons.pc = "underrun"
    /\ sq' = [sq EXCEPT !.stats.underruns = @ + 1]
    /\ cons' = [cons EXCEPT !.pc = "idle"]
    /\ UNCHANGED <<prod, wlog, rlog, snext>>

\* one iteration of the copy loop (lines 173-180)
ConsCopy ==
    /\ cons.pc = "copy"
    /\ cons.i < cons.toRead
    /\ cons' = [cons EXCEPT !.data = ReadFrame(sq, cons.data, cons.rPos, cons.i), !.i = @ + 1]
    /\ UNCHANGED <<sq, prod, wlog, rlog, snext>>

\* readPos.store(..., release) (line 183)
ConsStoreR ==
    /\ cons.pc = "copy"
    /\ ~(cons.i < cons.toRead)
    /\ sq' = [sq EXCEPT !.readPos = BitAnd(cons.rPos + cons.toRead, sq.capacityMask)]
    /\ cons' = [cons EXCEPT !.pc = "stat"]
    /\ UNCHANGED <<prod, wlog, rlog, snext>>

\* the counters and the return of toRead (lines 185-191)
ConsStat ==
    /\ cons.pc = "stat"
    /\ sq' = [sq EXCEPT !.stats.totalRead = @ + cons.toRead,
                        !.stats.underruns = IF cons.toRead < cons.frameCount THEN @ + 1 ELSE @]
    /\ rlog' = rlog \o FramesOf(cons.data, cons.toRead, sq.channels)
    /\ cons' = [cons EXCEPT !.pc = "idle"]
    /\ UNCHANGED <<prod, wlog, snext>>

SpscNext ==
    \/ \E frameCount \in 0..MaxSpscFrames : ProdCall(frameCount)
    \/ ProdLoadW
    \/ ProdLoadR
    \/ ProdOverrun
    \/ ProdCopy
    \/ ProdStoreW
    \/ ProdStat
    \/ \E frameCount \in 0..MaxSpscFrames : ConsCall(frameCount)
    \/ ConsLoadW
    \/ ConsLoadR
    \/ ConsUnderrun
    \/ ConsCopy
    \/ ConsStoreR
    \/ ConsStat

\* ------------------------------------------------------------------------
\* Spec: the AudioLayer2 bridge, whole calls
\* ------------------------------------------------------------------------

VARIABLES
    br,        \* the AudioLayer2 object
    dbg,       \* g_audioDebugVars
    bcall      \* the last call made on the bridge: operation, arguments, results

bridgeVars == <<br, dbg, bcall>>

NoBridgeCall == [op |-> "new", cfg |-> NewLayer2.config, ok |-> FALSE, ret |-> 0,
                 requestedFrames |-> 0, output |-> NULL, fill |-> [num |-> 0, den |-> 1],
                 allocOk |-> TRUE]

\* the configurations given to Initialize: one that is invalid; 1000 Hz
\* stereo (input ring of 16 frames); 2000 Hz mono and stereo (input ring of
\* 32 frames) with output rings of 16 and 8 frames
Configs ==
    {[targetSampleRate |-> 0, channels |-> 2, ringBufferFrames |-> 16],
     [targetSampleRate |-> 1000, channels |-> 2, ringBufferFrames |-> 16],
     [targetSampleRate |-> 2000, channels |-> 1, ringBufferFrames |-> 16],
     [targetSampleRate |-> 2000, channels |-> 2, ringBufferFrames |-> 8]}

FailPoints == {"none", "inputBuffer", "ringBuffer", "tempBuffer", "inputTempBuffer"}

\* cycles_per_sample of a producer running at the target rate
NominalCycles(b) ==
    IF b.config.targetSampleRate > 0 THEN syncbase \div b.config.targetSampleRate ELSE 4410

\* the values of cycles_per_sample: none, and rates of 2000 and 1000 Hz
CycleChoices == {0, 2205, 4410}

\* the caller's array given to PullSamples: room for stereo frames
PullChannels == 2

PullSizes == {0, 1, MaxPullFrames}

\* the chunks given to ProcessFromPaula: frame counts and cycles per sample
\* (2000 and 200 Hz)
ChunkSizes == {0, 3}

ChunkCycles == {2205, 22050}

\* the samples of a chunk
ChunkData(frameCount, channels) ==
    [size |-> frameCount * channels, def |-> Garbage,
     m |-> [j \in 0..(frameCount * channels - 1) |-> 10 * (j + 1)]]

ResamplerReady(b) == b.resampler # NullResampler /\ b.resampler.initialized

BridgeInit ==
    /\ br = NewLayer2
    /\ dbg = NewDebugVars
    /\ bcall = NoBridgeCall

DoInitialize(cfg, failAt) ==
    /\ dbg.pushSampleCalls <= MaxPushesBeforeInit
    /\ LET r == Layer2Initialize(br, cfg, failAt)
       IN /\ br' = r.b
          /\ bcall' = [NoBridgeCall EXCEPT !.op = "Initialize", !.cfg = cfg, !.ok = r.ret]
    /\ UNCHANGED dbg

DoShutdown ==
    /\ br' = Layer2Shutdown(br)
    /\ bcall' = [NoBridgeCall EXCEPT !.op = "Shutdown"]
    /\ UNCHANGED dbg

\* the pushed frame carries the number of the call: left = k, right = -k;
\* allocOk is FALSE only in a call that makes the allocation
DoPushSample(cycles_per_sample, allocOk) ==
    /\ dbg.pushSampleCalls < MaxPushes
    /\ \/ cycles_per_sample = NominalCycles(br)
       \/ dbg.pushSampleCalls < MaxOffRate
    /\ LET k == dbg.pushSampleCalls + 1
           r == PushSample(br, dbg, k, -k, cycles_per_sample, allocOk)
       IN /\ allocOk \/ r # PushSample(br, dbg, k, -k, cycles_per_sample, TRUE)
          /\ br' = r.b
          /\ dbg' = r.dbg
    /\ bcall' = [NoBridgeCall EXCEPT !.op = "PushSample", !.allocOk = allocOk]

DoProcessFromPaula(frameCount, isNull, cpuCyclesPerSample, allocOk, secondElapsed) ==
    /\ dbg.totalProcessCalls < MaxChunks
    /\ dbg.pushSampleCalls <= MaxPushesBeforeInit
    /\ LET samples == IF isNull THEN NULL ELSE ChunkData(frameCount, br.config.channels)
           r == ProcessFromPaula(br, dbg, samples, frameCount, cpuCyclesPerSample, syncbase,
                                 allocOk, secondElapsed)
       IN /\ allocOk \/ r # ProcessFromPaula(br, dbg, samples, frameCount,
                                               cpuCyclesPerSample, syncbase, TRUE,
                                               secondElapsed)
          /\ br' = r.b
          /\ dbg' = r.dbg
    /\ bcall' = [NoBridgeCall EXCEPT !.op = "ProcessFromPaula", !.allocOk = allocOk]

DoPullSamples(requestedFrames, isNull) ==
    /\ br.ringBuffer.stats.underruns < MaxUnderruns
    /\ LET output == IF isNull THEN NULL ELSE MemUninit(requestedFrames * PullChannels)
           r == PullSamples(br, output, requestedFrames)
       IN /\ br' = r.b
          /\ bcall' = [NoBridgeCall EXCEPT !.op = "PullSamples", !.ret = r.ret,
                                           !.requestedFrames = requestedFrames,
                                           !.output = r.output]
    /\ UNCHANGED dbg

DoGetBufferFillPercent ==
    /\ bcall' = [NoBridgeCall EXCEPT !.op = "GetBufferFillPercent",
                                     !.fill = GetBufferFillPercent(br)]
    /\ UNCHANGED <<br, dbg>>

BridgeNext ==
    \/ \E cfg \in Configs, failAt \in FailPoints : DoInitialize(cfg, failAt)
    \/ DoShutdown
    \/ \E c \in CycleChoices, allocOk \in BOOLEAN : DoPushSample(c, allocOk)
    \/ \E a \in ({<<n, FALSE>> : n \in ChunkSizes} \cup {<<3, TRUE>>}), c \in ChunkCycles,
          allocOk \in BOOLEAN, secondElapsed \in BOOLEAN :
           DoProcessFromPaula(a[1], a[2], c, allocOk, secondElapsed)
    \/ \E a \in ({<<n, FALSE>> : n \in PullSizes} \cup {<<1, TRUE>>}) : DoPullSamples(a[1], a[2])
    \/ DoGetBufferFillPercent

\* ------------------------------------------------------------------------
\* SpecThreads: an initialised AudioLayer2 with the producer thread inside
\* PushSample and the sink thread inside PullSamples.  The input ring, the
\* resampler and the scratch buffers are touched by the producer only; on
\* the output ring a step is one load of a position, one copy of a frame,
\* one store of a position or one update of a counter.  The scheduler may
\* stop either thread for good at any point.
\* ------------------------------------------------------------------------

VARIABLES
    tb,        \* the AudioLayer2 object shared by the two threads
    tdbg,      \* g_audioDebugVars
    pth,       \* the producer thread: where it is in PushSample, its locals
    sth        \* the sink thread: where it is in PullSamples, its locals

threadVars == <<tb, tdbg, pth, sth>>

\* number of PushSample calls made before the sink thread is started
PrefilledPushes == 15

ProducerIdle == [pc |-> "idle", running |-> TRUE, stereo |-> NULL, cycles |-> 0,
                 toProcess |-> 0, read |-> 0, expectedOutput |-> 0,
                 frameCount |-> 0, wPos |-> 0, rPos |-> 0, i |-> 0, calls |-> 0]

SinkIdle == [pc |-> "idle", running |-> TRUE, output |-> NULL, requestedFrames |-> 0,
             wPos |-> 0, rPos |-> 0, toRead |-> 0, framesRead |-> 0, i |-> 0,
             calls |-> 0, ret |-> 0]

\* the configurations of Configs that are valid
ThreadConfigs == {cfg \in Configs : cfg.targetSampleRate > 0}

ThreadsInit ==
    /\ tb = NewLayer2
    /\ tdbg = NewDebugVars
    /\ pth = ProducerIdle
    /\ sth = SinkIdle

\* Initialize(cfg), called before either thread runs
ThreadsStart(cfg) ==
    /\ ~tb.initialized
    /\ tb' = Layer2Initialize(tb, cfg, "none").b
    /\ UNCHANGED <<tdbg, pth, sth>>

\* the sink thread is started once the first pushes have been made
SinkStarted == tb.initialized /\ tdbg.pushSampleCalls >= PrefilledPushes

\* a whole call of PushSample at the nominal rate before the sink thread is
\* started, the k-th pushing the frame (k, -k)
ThreadsPrefill ==
    /\ tb.initialized
    /\ ~SinkStarted
    /\ LET k == tdbg.pushSampleCalls + 1
           r == PushSample(tb, tdbg, k, -k, NominalCycles(tb), TRUE)
       IN tb' = r.b /\ tdbg' = r.dbg
    /\ UNCHANGED <<pth, sth>>

ProducerAt(pc) == pth.running /\ pth.pc = pc

SinkAt(pc) == sth.running /\ sth.pc = pc

\* PushSample is called (lines 196-200)
PushEnter(cycles_per_sample) ==
    /\ ProducerAt("idle")
    /\ SinkStarted
    /\ pth.calls < MaxThreadPushes
    /\ IF ~tb.initialized \/ tb.inputBuffer = NullRing
       THEN pth' = [pth EXCEPT !.calls = @ + 1] /\ UNCHANGED tdbg
       ELSE /\ tdbg' = [tdbg EXCEPT !.pushSampleCalls = @ + 1]
            /\ pth' = [pth EXCEPT !.pc = "write", !.calls = @ + 1,
                                  !.cycles = cycles_per_sample,
                                  !.stereo = StereoFrame(tdbg.pushSampleCalls + 1,
                                                         -(tdbg.pushSampleCalls + 1))]
    /\ UNCHANGED <<tb, sth>>

\* inputBuffer->Write(stereo, 1) and the count of its failure (lines 202-203)
PushWriteInput ==
    /\ ProducerAt("write")
    /\ LET w == RingWrite(tb.inputBuffer, pth.stereo, 1)
       IN /\ tb' = [tb EXCEPT !.inputBuffer = w.rb]
          /\ tdbg' = IF w.ret THEN tdbg ELSE [tdbg EXCEPT !.layer2Overruns = @ + 1]
          /\ pth' = [pth EXCEPT !.pc = IF w.ret THEN "rate" ELSE "drop"]
    /\ UNCHANGED sth

\* inputBuffer->Read(dummy, 1) (lines 206-207)
PushDropOldest ==
    /\ ProducerAt("drop")
    /\ tb' = [tb EXCEPT !.inputBuffer = RingRead(tb.inputBuffer, MemUninit(2), 1).rb]
    /\ pth' = [pth EXCEPT !.pc = "rewrite"]
    /\ UNCHANGED <<tdbg, sth>>

\* the second inputBuffer->Write(stereo, 1) (line 208)
PushRetryWrite ==
    /\ ProducerAt("rewrite")
    /\ tb' = [tb EXCEPT !.inputBuffer = RingWrite(tb.inputBuffer, pth.stereo, 1).rb]
    /\ pth' = [pth EXCEPT !.pc = "rate"]
    /\ UNCHANGED <<tdbg, sth>>

\* UpdateRateMeasurement(cycles_per_sample) (line 211)
PushUpdateRate ==
    /\ ProducerAt("rate")
    /\ tb' = [tb EXCEPT !.rateMeasurement =
                  UpdateRateMeasurement(tb, pth.cycles).rateMeasurement]
    /\ pth' = [pth EXCEPT !.pc = "drain"]
    /\ UNCHANGED <<tdbg, sth>>

\* ResampleInputToOutput is entered: its tests, the count of the call and
\* the scratch array for the frames to read (lines 263-281)
PushDrainCheck ==
    /\ ProducerAt("drain")
    /\ IF \/ ~tb.initialized \/ tb.inputBuffer = NullRing \/ tb.ringBuffer = NullRing
          \/ tb.resampler = NullResampler
          \/ GetAvailableRead(tb.inputBuffer) < 16
       THEN pth' = [pth EXCEPT !.pc = "idle"] /\ UNCHANGED <<tb, tdbg>>
       ELSE /\ tdbg' = [tdbg EXCEPT !.resampleCalls = @ + 1]
            /\ tb' = GrowInputTemp(tb, DrainChunk(tb))
            /\ pth' = [pth EXCEPT !.pc = "read", !.toProcess = DrainChunk(tb)]
    /\ UNCHANGED sth

\* read = inputBuffer->Read(inputTempBuffer, toProcess) (lines 283-286)
PushDrainRead ==
    /\ ProducerAt("read")
    /\ LET rd == RingRead(tb.inputBuffer, tb.inputTempBuffer, pth.toProcess)
       IN /\ tb' = [tb EXCEPT !.inputBuffer = rd.rb, !.inputTempBuffer = rd.data]
          /\ pth' = [pth EXCEPT !.read = rd.ret,
                                !.pc = IF rd.ret <= 0 THEN "idle" ELSE "configure"]
    /\ UNCHANGED <<tdbg, sth>>

\* the resampler is initialised or given the measured rate, and the scratch
\* array for its output grows (lines 288-315); allocOk is FALSE only in a
\* call that makes the allocation
PushDrainConfigure(allocOk) ==
    /\ ProducerAt("configure")
    /\ allocOk \/ ~tb.resampler.initialized
    /\ LET cf == DrainConfigure(tb, allocOk)
       IN IF ~cf.ret
          THEN /\ tb' = [tb EXCEPT !.resampler = cf.rs]
               /\ pth' = [pth EXCEPT !.pc = "idle"]
          ELSE /\ tb' = GrowTemp([tb EXCEPT !.resampler = cf.rs],
                                 ExpectedOutput(tb, pth.read))
               /\ pth' = [pth EXCEPT !.pc = "process",
                                     !.expectedOutput = ExpectedOutput(tb, pth.read)]
    /\ UNCHANGED <<tdbg, sth>>

\* resampled = resampler->Process(...) and, for resampled > 0, the entry of
\* ringBuffer->Write(tempBuffer, resampled) (lines 317-325 and 119-120)
PushDrainProcess ==
    /\ ProducerAt("process")
    /\ LET pr == ResamplerProcess(tb.resampler, tb.inputTempBuffer, pth.read,
                                  tb.tempBuffer, pth.expectedOutput)
       IN /\ tb' = [tb EXCEPT !.resampler = pr.rs, !.tempBuffer = pr.output]
          /\ pth' = IF pr.ret > 0 /\ tb.ringBuffer.buffer # NULL /\ tb.tempBuffer # NULL
                    THEN [pth EXCEPT !.pc = "loadW", !.frameCount = pr.ret]
                    ELSE [pth EXCEPT !.pc = "idle"]
    /\ UNCHANGED <<tdbg, sth>>

\* wPos = writePos.load(relaxed) (line 122)
OutLoadW ==
    /\ ProducerAt("loadW")
    /\ pth' = [pth EXCEPT !.pc = "loadR", !.wPos = tb.ringBuffer.writePos]
    /\ UNCHANGED <<tb, tdbg, sth>>

\* variant of OutLoadR: a Write that does not fit waits for the sink thread
\* to make room
OutLoadRWaits ==
    /\ ProducerAt("loadR")
    /\ LET rPos == tb.ringBuffer.readPos
           available == WriteSpace(rPos, pth.wPos, tb.ringBuffer.capacityMask)
       IN pth' = [pth EXCEPT !.rPos = rPos, !.i = 0,
                             !.pc = IF pth.frameCount > available THEN "loadW" ELSE "copy"]
    /\ UNCHANGED <<tb, tdbg, sth>>

\* rPos = readPos.load(acquire) and the test of the free space (lines 123-128)
OutLoadR ==
    /\ ProducerAt("loadR")
    /\ LET rPos == tb.ringBuffer.readPos
           available == WriteSpace(rPos, pth.wPos, tb.ringBuffer.capacityMask)
       IN pth' = [pth EXCEPT !.rPos = rPos, !.i = 0,
                             !.pc = IF pth.frameCount > available THEN "overrun" ELSE "copy"]
    /\ UNCHANGED <<tb, tdbg, sth>>

\* stats.overruns++; return false (lines 130-131)
OutOverrun ==
    /\ ProducerAt("overrun")
    /\ tb' = [tb EXCEPT !.ringBuffer.stats.overruns = @ + 1]
    /\ pth' = [pth EXCEPT !.pc = "failed"]
    /\ UNCHANGED <<tdbg, sth>>

\* one iteration of the copy loop (lines 137-144)
OutCopy ==
    /\ ProducerAt("copy")
    /\ pth.i < pth.frameCount
    /\ tb' = [tb EXCEPT !.ringBuffer = WriteFrame(tb.ringBuffer, tb.tempBuffer, pth.wPos, pth.i)]
    /\ pth' = [pth EXCEPT !.i = @ + 1]
    /\ UNCHANGED <<tdbg, sth>>

\* writePos.store(..., release) (line 147)
OutStoreW ==
    /\ ProducerAt("copy")
    /\ ~(pth.i < pth.frameCount)
    /\ tb' = [tb EXCEPT !.ringBuffer.writePos =
                  BitAnd(pth.wPos + pth.frameCount, tb.ringBuffer.capacityMask)]
    /\ pth' = [pth EXCEPT !.pc = "stat"]
    /\ UNCHANGED <<tdbg, sth>>

\* stats.totalWritten += frameCount; return true; PushSample returns (lines
\* 149-150)
OutStat ==
    /\ ProducerAt("stat")
    /\ tb' = [tb EXCEPT !.ringBuffer.stats.totalWritten = @ + pth.frameCount]
    /\ pth' = [pth EXCEPT !.pc = "idle"]
    /\ UNCHANGED <<tdbg, sth>>

\* g_audioDebugVars.layer2Overruns++; PushSample returns (lines 325-334)
PushCountOverrun ==
    /\ ProducerAt("failed")
    /\ tdbg' = [tdbg EXCEPT !.layer2Overruns = @ + 1]
    /\ pth' = [pth EXCEPT !.pc = "idle"]
    /\ UNCHANGED <<tb, sth>>

\* PullSamples is called: its test and that of Read (lines 471-473 and
\* 154-155); Read returns 0 at once for a request of 0 frames
PullEnter(requestedFrames) ==
    /\ SinkAt("idle")
    /\ SinkStarted
    /\ sth.calls < MaxThreadPulls
    /\ LET output == MemUninit(requestedFrames * PullChannels)
       IN sth' = IF ~tb.initialized \/ output = NULL \/ tb.ringBuffer = NullRing
                 THEN [sth EXCEPT !.calls = @ + 1, !.ret = 0]
                 ELSE IF tb.ringBuffer.buffer = NULL \/ requestedFrames = 0
                 THEN [sth EXCEPT !.calls = @ + 1, !.pc = "fill", !.output = output,
                                  !.requestedFrames = requestedFrames, !.framesRead = 0]
                 ELSE [sth EXCEPT !.calls = @ + 1, !.pc = "loadW", !.output = output,
                                  !.requestedFrames = requestedFrames]
    /\ UNCHANGED <<tb, tdbg, pth>>

\* wPos = writePos.load(acquire) (line 157)
PullLoadW ==
    /\ SinkAt("loadW")
    /\ sth' = [sth EXCEPT !.pc = "loadR", !.wPos = tb.ringBuffer.writePos]
    /\ UNCHANGED <<tb, tdbg, pth>>

\* rPos = readPos.load(relaxed), the test for data and toRead (lines 158-171)
PullLoadR ==
    /\ SinkAt("loadR")
    /\ LET rPos == tb.ringBuffer.readPos
           available == ReadAvail(sth.wPos, rPos, tb.ringBuffer.capacityMask)
       IN sth' = [sth EXCEPT !.rPos = rPos, !.i = 0,
                             !.toRead = IF sth.requestedFrames < available
                                        THEN sth.requestedFrames ELSE available,
                             !.pc = IF available = 0 THEN "underrun" ELSE "copy"]
    /\ UNCHANGED <<tb, tdbg, pth>>

\* stats.underruns++; return 0 (lines 165-166)
PullUnderrun ==
    /\ SinkAt("underrun")
    /\ tb' = [tb EXCEPT !.ringBuffer.stats.underruns = @ + 1]
    /\ sth' = [sth EXCEPT !.pc = "fill", !.framesRead = 0]
    /\ UNCHANGED <<tdbg, pth>>

\* one iteration of the copy loop (lines 173-180)
PullCopy ==
    /\ SinkAt("copy")
    /\ sth.i < sth.toRead
    /\ sth' = [sth EXCEPT !.output = ReadFrame(tb.ringBuffer, sth.output, sth.rPos, sth.i),
                          !.i = @ + 1]
    /\ UNCHANGED <<tb, tdbg, pth>>

\* readPos.store(..., release) (line 183)
PullStoreR ==
    /\ SinkAt("copy")
    /\ ~(sth.i < sth.toRead)
    /\ tb' = [tb EXCEPT !.ringBuffer.readPos =
                  BitAnd(sth.rPos + sth.toRead, tb.ringBuffer.capacityMask)]
    /\ sth' = [sth EXCEPT !.pc = "stat"]
    /\ UNCHANGED <<tdbg, pth>>

\* the counters and the return of toRead (lines 185-191)
PullStat ==
    /\ SinkAt("stat")
    /\ tb' = [tb EXCEPT !.ringBuffer.stats.totalRead = @ + sth.toRead,
                        !.ringBuffer.stats.underruns =
                            IF sth.toRead < sth.requestedFrames THEN @ + 1 ELSE @]
    /\ sth' = [sth EXCEPT !.pc = "fill", !.framesRead = sth.toRead]
    /\ UNCHANGED <<tdbg, pth>>

\* the zero fill of the tail and the return of requestedFrames (lines 475-491)
PullZeroFill ==
    /\ SinkAt("fill")
    /\ LET samplesRead == sth.framesRead * tb.config.channels
           samplesTotal == sth.requestedFrames * tb.config.channels
       IN sth' = [sth EXCEPT !.pc = "idle", !.ret = sth.requestedFrames,
                             !.output = IF sth.framesRead < sth.requestedFrames
                                        THEN MemFill(sth.output, samplesRead,
                                                     samplesTotal - samplesRead, 0)
                                        ELSE sth.output]
    /\ UNCHANGED <<tb, tdbg, pth>>

\* the scheduler never runs the producer thread again
ProducerStops ==
    /\ SinkStarted
    /\ pth.running
    /\ pth' = [pth EXCEPT !.running = FALSE]
    /\ UNCHANGED <<tb, tdbg, sth>>

\* the scheduler never runs the sink thread again
SinkStops ==
    /\ SinkStarted
    /\ sth.running
    /\ sth' = [sth EXCEPT !.running = FALSE]
    /\ UNCHANGED <<tb, tdbg, pth>>

\* the steps the producer thread takes inside a call of PushSample
ProducerStep ==
    \/ PushWriteInput
    \/ PushDropOldest
    \/ PushRetryWrite
    \/ PushUpdateRate
    \/ PushDrainCheck
    \/ PushDrainRead
    \/ \E allocOk \in BOOLEAN : PushDrainConfigure(allocOk)
    \/ PushDrainProcess
    \/ OutLoadW
    \/ OutLoadR
    \/ OutOverrun
    \/ OutCopy
    \/ OutStoreW
    \/ OutStat
    \/ PushCountOverrun

\* the steps the sink thread takes inside a call of PullSamples
SinkStep ==
    \/ PullLoadW
    \/ PullLoadR
    \/ PullUnderrun
    \/ PullCopy
    \/ PullStoreR
    \/ PullStat
    \/ PullZeroFill

ThreadsNext ==
    \/ \E cfg \in ThreadConfigs : ThreadsStart(cfg)
    \/ ThreadsPrefill
    \/ \E c \in CycleChoices : PushEnter(c)
    \/ ProducerStep
    \/ \E requestedFrames \in 0..MaxThreadPullFrames : PullEnter(requestedFrames)
    \/ SinkStep
    \/ ProducerStops
    \/ SinkStops

\* ------------------------------------------------------------------------
\* SpecRate: the end-to-end run in direct mode.  A producer of 44100 Hz
\* pushes frames into a bridge whose target rate is 48000 Hz, and the sink
\* empties the output ring before the next push, so that the output ring
\* never overruns.
\* ------------------------------------------------------------------------

VARIABLES
    eb,        \* the AudioLayer2 object
    edbg       \* g_audioDebugVars

rateVars == <<eb, edbg>>

\* rate of the producer, in Hz
ProducerRate == 44100

RateConfig == [targetSampleRate |-> 48000, channels |-> 2, ringBufferFrames |-> 64]

\* the k-th pushed sample: a slowly varying ramp, up and down
Ramp(k) == IF (k % 2000) < 1000 THEN k % 1000 ELSE 1000 - (k % 1000)

RateInit ==
    /\ eb = NewLayer2
    /\ edbg = NewDebugVars

RateStart ==
    /\ ~eb.initialized
    /\ eb' = Layer2Initialize(eb, RateConfig, "none").b
    /\ UNCHANGED edbg

RatePush ==
    /\ eb.initialized
    /\ edbg.pushSampleCalls < MaxRatePushes
    /\ GetAvailableRead(eb.ringBuffer) = 0
    /\ LET k == edbg.pushSampleCalls + 1
           r == PushSample(eb, edbg, Ramp(k), Ramp(k), syncbase \div ProducerRate, TRUE)
       IN eb' = r.b /\ edbg' = r.dbg

\* the sink pulls all the frames that the output ring holds
RatePull ==
    /\ eb.initialized
    /\ GetAvailableRead(eb.ringBuffer) > 0
    /\ eb' = PullSamples(eb, MemUninit(GetAvailableRead(eb.ringBuffer) * eb.config.channels),
                         GetAvailableRead(eb.ringBuffer)).b
    /\ UNCHANGED edbg

RateNext ==
    \/ RateStart
    \/ RatePush
    \/ RatePull

\* ------------------------------------------------------------------------
\* SpecResampler: the AudioResampler alone.  The arguments of each call are
\* drawn from small sets; fed and got are the input frames handed to
\* Process and the output frames it produced since the last Initialize.
\* ------------------------------------------------------------------------

VARIABLES
    rsm,       \* the AudioResampler object
    rscall,    \* the last call and its arguments and results
    fed,       \* input cells of the Process calls since Initialize, in order
    got,       \* output cells produced since Initialize, in order
    rsn        \* calls made so far

resamplerVars == <<rsm, rscall, fed, got, rsn>>

\* output rate, in Hz, of the resampler alone
ResamplerOutputRate == 2

\* values of inRate: invalid, the output rate, 2.5 times the output rate
InRateChoices == {0, ResamplerOutputRate * RateScale, 5 * RateScale}

OutRateChoices == {0, ResamplerOutputRate}

\* samples of channel 0 of the input: the two ends of the int16 range
SampleChoices == {-32768, 32767}

\* the cells of an interleaved input whose channel 0 holds the samples of f;
\* channel 1 holds their complements
Interleaved(f, frames, channels) ==
    [c \in 0..(frames * channels - 1) |->
        IF c % channels = 0 THEN f[c \div channels] ELSE -1 - f[c \div channels]]

NoResamplerCall ==
    [op |-> "none", ok |-> TRUE, input |-> NULL, inputFrames |-> 0, before |-> NULL,
     output |-> NULL, outputCapacity |-> 0, ret |-> 0, position |-> 0]

\* an int16 array of n cells holding the values of f
InputOf(n, f) == [size |-> n, def |-> Garbage, m |-> f]

\* the first n cells of mem, as a sequence
CellsOf(mem, n) == [i \in 1..n |-> MemLoad(mem, i - 1)]

ResamplerInit ==
    /\ rsm = NewResampler
    /\ rscall = NoResamplerCall
    /\ fed = <<>>
    /\ got = <<>>
    /\ rsn = [inits |-> 0, processes |-> 0]

DoResamplerInitialize(inRate, outRate, numChannels, allocOk) ==
    /\ rsn.inits < MaxResamplerInits
    /\ rsm.lastFrame = NULL
    /\ LET r == ResamplerInitialize(rsm, inRate, outRate, numChannels, allocOk)
       IN /\ rsm' = r.rs
          /\ rscall' = [NoResamplerCall EXCEPT !.op = "Initialize", !.ok = r.ret]
    /\ fed' = <<>>
    /\ got' = <<>>
    /\ rsn' = [rsn EXCEPT !.inits = @ + 1]

DoSetInputRate(newInputRate) ==
    /\ rsm.initialized
    /\ rsm.inputRate # newInputRate
    /\ rsm' = SetInputRate(rsm, newInputRate)
    /\ rscall' = [NoResamplerCall EXCEPT !.op = "SetInputRate"]
    /\ UNCHANGED <<fed, got, rsn>>

\* the channel count of the arrays handed to Process
ProcessChannels == IF rsm.initialized THEN rsm.channels ELSE 1

\* Process on an input of inputFrames frames and an output array that has
\* room for one frame more than outputCapacity (or no output array)
DoProcess(inputFrames, input, outputCapacity, hasOutput) ==
    /\ rsn.processes < MaxProcessCalls
    /\ LET channels == ProcessChannels
           before == IF hasOutput THEN MemUninit((outputCapacity + 1) * channels) ELSE NULL
           r == ResamplerProcess(rsm, input, inputFrames, before, outputCapacity)
       IN /\ rsm' = r.rs
          /\ rscall' = [op |-> "Process", ok |-> TRUE, input |-> input,
                        inputFrames |-> inputFrames, before |-> before, output |-> r.output,
                        outputCapacity |-> outputCapacity, ret |-> r.ret,
                        position |-> rsm.position]
          /\ fed' = IF rsm.initialized /\ hasOutput /\ outputCapacity > 0
                    THEN fed \o CellsOf(input, inputFrames * channels) ELSE fed
          /\ got' = got \o CellsOf(r.output, r.ret * channels)
    /\ rsn' = [rsn EXCEPT !.processes = @ + 1]

DoResamplerShutdown ==
    /\ rsm.lastFrame # NULL
    /\ rsm' = ResamplerShutdown(rsm)
    /\ rscall' = [NoResamplerCall EXCEPT !.op = "Shutdown"]
    /\ UNCHANGED <<fed, got, rsn>>

ResamplerNext ==
    \/ \E inRate \in InRateChoices, outRate \in OutRateChoices, numChannels \in 0..2, allocOk \in BOOLEAN :
           DoResamplerInitialize(inRate, outRate, numChannels, allocOk)
    \/ \E newInputRate \in InRateChoices \ {0} : DoSetInputRate(newInputRate)
    \/ \E inputFrames \in 0..MaxChunkFrames, outputCapacity \in 0..MaxOutputCapacity :
           \E f \in [0..(inputFrames - 1) -> SampleChoices] :
               DoProcess(inputFrames,
                         InputOf(inputFrames * ProcessChannels,
                                 Interleaved(f, inputFrames, ProcessChannels)),
                         outputCapacity, TRUE)
    \/ \E inputFrames \in 0..MaxChunkFrames :
           \E f \in [0..(inputFrames - 1) -> SampleChoices] :
               DoProcess(inputFrames,
                         InputOf(inputFrames * ProcessChannels,
                                 Interleaved(f, inputFrames, ProcessChannels)),
                         MaxOutputCapacity, FALSE)
    \/ DoResamplerShutdown

\* ------------------------------------------------------------------------
\* SpecEstimator: the rate estimator alone.  UpdateRateMeasurement is
\* applied to an initialised bridge with observations drawn from a small set
\* of values of cycles_per_sample.
\* ------------------------------------------------------------------------

VARIABLES
    est,       \* the AudioLayer2 object
    ecall,     \* the last call: operation and cycles_per_sample
    en         \* calls made so far

estimatorVars == <<est, ecall, en>>

\* target rates of 2000 Hz and 1000 Hz
EstimatorConfigs ==
    {[targetSampleRate |-> 2000, channels |-> 2, ringBufferFrames |-> 8],
     [targetSampleRate |-> 1000, channels |-> 2, ringBufferFrames |-> 16]}

\* cycles_per_sample: not a number, negative, zero, 3002 Hz, 3000 Hz,
\* 2000 Hz, 1000 Hz and 999.8 Hz
ObservedCycles == {NaN, -2205, 0, 1469, 1470, 2205, 4410, 4411}

NoEstimatorCall == [op |-> "none", cycles_per_sample |-> 0]

EstimatorInit ==
    /\ est = NewLayer2
    /\ ecall = NoEstimatorCall
    /\ en = [inits |-> 0, observations |-> 0]

EstimatorInitialize(cfg) ==
    /\ en.inits < MaxEstimatorInits
    /\ est' = Layer2Initialize(est, cfg, "none").b
    /\ ecall' = [NoEstimatorCall EXCEPT !.op = "Initialize"]
    /\ en' = [en EXCEPT !.inits = @ + 1]

Observe(cycles_per_sample) ==
    /\ est.initialized
    /\ en.observations < MaxObservations
    /\ est' = UpdateRateMeasurement(est, cycles_per_sample)
    /\ ecall' = [op |-> "UpdateRateMeasurement", cycles_per_sample |-> cycles_per_sample]
    /\ en' = [en EXCEPT !.observations = @ + 1]

EstimatorNext ==
    \/ \E cfg \in EstimatorConfigs : EstimatorInitialize(cfg)
    \/ \E cycles_per_sample \in ObservedCycles : Observe(cycles_per_sample)

\* ------------------------------------------------------------------------
\* AudioWASAPILayer3: the sink adapter
\* ------------------------------------------------------------------------

\* Stats of the adapter; avgLatencyMs is a fraction num / den
NewLayer3Stats ==
    [totalFramesWritten |-> 0, totalPullEvents |-> 0, underruns |-> 0,
     avgLatencyMs |-> [num |-> 0, den |-> 1]]

\* AudioWASAPILayer3(): hasInterfaces stands for the three interface pointers
NewLayer3 ==
    [initialized |-> FALSE, hasInterfaces |-> FALSE, sampleRate |-> 0, channels |-> 0,
     bits |-> 0, bufferFrameCount |-> 0, tempBuffer |-> NULL, convertBuffer |-> NULL,
     tempBufferCapacity |-> 0, stats |-> NewLayer3Stats]

\* void Shutdown()
Layer3Shutdown(a) ==
    IF ~a.initialized THEN a
    ELSE [a EXCEPT !.tempBuffer = NULL, !.convertBuffer = NULL, !.hasInterfaces = FALSE,
                   !.tempBufferCapacity = 0, !.initialized = FALSE]

\* bool Initialize(device, audioClient, renderClient, rate, numChannels,
\* bitsPerSample, bufferFrames); failAt names the allocation that returns null
Layer3Initialize(a, hasInterfaces, rate, numChannels, bitsPerSample, bufferFrames, failAt) ==
    LET a0 == Layer3Shutdown(a)
    IN IF ~hasInterfaces \/ rate <= 0 \/ numChannels <= 0 \/ bufferFrames = 0
       THEN [a |-> a0, ret |-> FALSE]
       ELSE
       LET a1 == [a0 EXCEPT !.hasInterfaces = TRUE, !.sampleRate = rate,
                            !.channels = numChannels, !.bits = bitsPerSample,
                            !.bufferFrameCount = bufferFrames,
                            !.tempBufferCapacity = bufferFrames * 2]
           cells == a1.tempBufferCapacity * numChannels
       IN IF failAt = "tempBuffer"
          THEN [a |-> [a1 EXCEPT !.tempBuffer = NULL], ret |-> FALSE]
          ELSE
          LET a2 == [a1 EXCEPT !.tempBuffer = MemUninit(cells),
                               !.bits = IF bitsPerSample \in {16, 32} THEN bitsPerSample ELSE 16]
          IN IF failAt = "convertBuffer"
             THEN [a |-> [a2 EXCEPT !.convertBuffer = NULL, !.tempBuffer = NULL],
                   ret |-> FALSE]
             ELSE [a |-> [a2 EXCEPT !.tempBuffer = MemZero(cells),
                                    !.convertBuffer = MemZero(cells),
                                    !.stats = NewLayer3Stats,
                                    !.initialized = TRUE],
                   ret |-> TRUE]

\* the float 1.0f
FloatOne == 32768 * FloatScale

\* if (sample > 1.0f) sample = 1.0f; if (sample < -1.0f) sample = -1.0f
Clamp(sample) ==
    IF sample > FloatOne THEN FloatOne ELSE IF sample < -FloatOne THEN -FloatOne ELSE sample

\* (int16_t)(sample * 32767.0f): sample * 32767 truncated towards zero; the
\* product is formed in two steps to stay within 32 bits, and the rounding
\* of the float product is left out
ToInt16(sample) ==
    LET v == Clamp(sample)
        q == v \div FloatScale
        r == v % FloatScale
        whole == (q * 32767) \div 32768
        rest == 16 * ((q * 32767) % 32768) + r * 32767
        floor == whole + rest \div FloatOne
    IN IF v >= 0 \/ rest % FloatOne = 0 THEN floor ELSE floor + 1

\* (int32_t)(sample * 2147483647.0f): the float constant is 2^31, so the
\* product is sample * 2^31; it does not fit an int32_t for sample = 1.0f,
\* and the conversion then has no defined result: outOfRange is what the
\* build produces
ToInt32(sample, outOfRange) ==
    IF Clamp(sample) >= FloatOne THEN outOfRange ELSE Clamp(sample) * 4096

\* ConvertFloatToInt16 / ConvertFloatToInt32 on the first frameCount frames
ConvertFrames(a, frameCount, outOfRange) ==
    [a.convertBuffer EXCEPT !.m =
        [i \in 0..(frameCount * a.channels - 1) |->
            IF a.bits = 16 THEN ToInt16(MemLoad(a.tempBuffer, i))
            ELSE ToInt32(MemLoad(a.tempBuffer, i), outOfRange)] @@ @]

\* the render endpoint: frames queued and not yet played, and the packet
\* that the last ReleaseBuffer handed over
NewDevice == [padding |-> 0, packetFrames |-> 0, packet |-> NULL]

\* GetBuffer, a copy of the first frames of data (or a memset to 0 when data
\* is NULL) and ReleaseBuffer of the same number of frames
DeviceWrite(dev, data, frames, channels) ==
    [padding |-> dev.padding + frames, packetFrames |-> frames,
     packet |-> [size |-> frames * channels, def |-> Garbage,
                 m |-> [i \in 0..(frames * channels - 1) |->
                           IF data = NULL THEN 0 ELSE MemLoad(data, i)]]]

\* the calls of OnPullEvent to the endpoint that can fail
PullFailPoints == {"none", "GetCurrentPadding", "GetBuffer", "ReleaseBuffer"}

\* the branch of OnPullEvent taken when PullSamples returned 0 (lines 184-197)
PullEventUnderrun(a, b, dev, availFrames, failAt) ==
    [a |-> [a EXCEPT !.stats.totalPullEvents = @ + 1, !.stats.underruns = @ + 1],
     b |-> b,
     dev |-> IF failAt = "GetBuffer" THEN dev ELSE DeviceWrite(dev, NULL, availFrames, a.channels),
     availFrames |-> availFrames, ret |-> FALSE]

\* steps 3 to 6 of OnPullEvent and the statistics (lines 199-240); a is the
\* adapter after PullSamples has filled tempBuffer
PullEventDeliver(a, b, dev, availFrames, pulledFrames, failAt, statsDue, outOfRange) ==
    LET a1 == [a EXCEPT !.stats.totalPullEvents = @ + 1,
                        !.convertBuffer = ConvertFrames(a, pulledFrames, outOfRange)]
    IN IF failAt = "GetBuffer"
       THEN [a |-> a1, b |-> b, dev |-> dev, availFrames |-> availFrames, ret |-> FALSE]
       ELSE
       LET dev1 == DeviceWrite(dev, a1.convertBuffer, pulledFrames, a.channels)
       IN IF failAt = "ReleaseBuffer"
          THEN [a |-> a1, b |-> b, dev |-> dev, availFrames |-> availFrames, ret |-> FALSE]
          ELSE [a |-> [a1 EXCEPT !.stats.totalFramesWritten = @ + pulledFrames,
                                 !.stats.avgLatencyMs =
                                     IF statsDue
                                     THEN [num |-> 40 * GetBufferFillPercent(b).num,
                                           den |-> GetBufferFillPercent(b).den]
                                     ELSE @],
                b |-> b, dev |-> dev1, availFrames |-> availFrames, ret |-> TRUE]

\* bool OnPullEvent(AudioLayer2* layer2); b is *layer2, layer2Null says that
\* layer2 is a null pointer, statsDue that five seconds have passed since
\* the last statistics line
OnPullEvent(a, b, dev, layer2Null, failAt, statsDue, outOfRange) ==
    IF ~a.initialized \/ layer2Null
    THEN [a |-> a, b |-> b, dev |-> dev, availFrames |-> 0, ret |-> FALSE]
    ELSE IF failAt = "GetCurrentPadding"
    THEN [a |-> [a EXCEPT !.stats.totalPullEvents = @ + 1], b |-> b, dev |-> dev,
          availFrames |-> 0, ret |-> FALSE]
    ELSE IF a.bufferFrameCount - dev.padding = 0
    THEN [a |-> [a EXCEPT !.stats.totalPullEvents = @ + 1], b |-> b, dev |-> dev,
          availFrames |-> 0, ret |-> TRUE]
    ELSE LET availFrames == Min(a.bufferFrameCount - dev.padding, a.tempBufferCapacity)
             pull == PullSamples(b, a.tempBuffer, availFrames)
         IN IF pull.ret = 0
            THEN PullEventUnderrun(a, pull.b, dev, availFrames, failAt)
            ELSE PullEventDeliver([a EXCEPT !.tempBuffer = pull.output], pull.b, dev,
                                  availFrames, pull.ret, failAt, statsDue, outOfRange)

\* ------------------------------------------------------------------------
\* SpecSink: the sink adapter pulling from a bridge, whole calls.  The
\* bridge is fed by ProcessFromPaula; the endpoint plays queued frames.
\* ------------------------------------------------------------------------

VARIABLES
    l3,        \* the AudioWASAPILayer3 object
    sbr,       \* the AudioLayer2 object that OnPullEvent is given
    sdbg,      \* g_audioDebugVars
    device,    \* the render endpoint
    scall,     \* the last call made: operation, arguments, results
    sn         \* calls made so far

sinkVars == <<l3, sbr, sdbg, device, scall, sn>>

SinkBridgeConfig == [targetSampleRate |-> 2000, channels |-> 2, ringBufferFrames |-> 16]

\* the arguments of the adapter's Initialize: 16 and 32 bits, a bit depth
\* that falls back to 16, an invalid rate, no buffer, no interfaces
SinkConfigs ==
    {[hasInterfaces |-> TRUE, rate |-> 2000, channels |-> 2, bits |-> 16, bufferFrames |-> 2],
     [hasInterfaces |-> TRUE, rate |-> 2000, channels |-> 2, bits |-> 32, bufferFrames |-> 2],
     [hasInterfaces |-> TRUE, rate |-> 2000, channels |-> 2, bits |-> 24, bufferFrames |-> 3],
     [hasInterfaces |-> TRUE, rate |-> 0, channels |-> 2, bits |-> 16, bufferFrames |-> 2],
     [hasInterfaces |-> TRUE, rate |-> 2000, channels |-> 2, bits |-> 16, bufferFrames |-> 0],
     [hasInterfaces |-> FALSE, rate |-> 2000, channels |-> 2, bits |-> 16, bufferFrames |-> 2]}

SinkFailPoints == {"none", "tempBuffer", "convertBuffer"}

\* what an out-of-range conversion to int32_t can produce
OutOfRangeChoices == {-2147483647 - 1, 2147483647}

NoSinkCall == [op |-> "new", ok |-> FALSE, availFrames |-> 0, layer2Null |-> FALSE,
               failAt |-> "none"]

SinkInit ==
    /\ l3 = NewLayer3
    /\ sbr = NewLayer2
    /\ sdbg = NewDebugVars
    /\ device = NewDevice
    /\ scall = NoSinkCall
    /\ sn = [inits |-> 0, pulls |-> 0]

SinkBridgeInitialize ==
    /\ ~sbr.initialized
    /\ sbr' = Layer2Initialize(sbr, SinkBridgeConfig, "none").b
    /\ scall' = [NoSinkCall EXCEPT !.op = "Layer2Initialize", !.ok = TRUE]
    /\ UNCHANGED <<l3, sdbg, device, sn>>

\* a chunk of 3 frames at 2000 Hz
SinkFeed ==
    /\ sbr.initialized
    /\ sdbg.totalProcessCalls < MaxSinkChunks
    /\ LET r == ProcessFromPaula(sbr, sdbg, ChunkData(3, sbr.config.channels), 3, 2205,
                                 syncbase, TRUE, FALSE)
       IN sbr' = r.b /\ sdbg' = r.dbg
    /\ scall' = [NoSinkCall EXCEPT !.op = "ProcessFromPaula", !.ok = TRUE]
    /\ UNCHANGED <<l3, device, sn>>

SinkInitialize(cfg, failAt) ==
    /\ sn.inits < MaxSinkInits
    /\ LET r == Layer3Initialize(l3, cfg.hasInterfaces, cfg.rate, cfg.channels, cfg.bits,
                                 cfg.bufferFrames, failAt)
       IN /\ failAt = "none" \/ r # Layer3Initialize(l3, cfg.hasInterfaces, cfg.rate,
                                                      cfg.channels, cfg.bits,
                                                      cfg.bufferFrames, "none")
          /\ l3' = r.a
          /\ scall' = [NoSinkCall EXCEPT !.op = "Initialize", !.ok = r.ret]
    /\ device' = NewDevice
    /\ sn' = [sn EXCEPT !.inits = @ + 1]
    /\ UNCHANGED <<sbr, sdbg>>

SinkShutdown ==
    /\ l3.initialized
    /\ l3' = Layer3Shutdown(l3)
    /\ scall' = [NoSinkCall EXCEPT !.op = "Shutdown", !.ok = TRUE]
    /\ UNCHANGED <<sbr, sdbg, device, sn>>

\* the endpoint plays frames of its queue
DevicePlays(frames) ==
    /\ frames <= device.padding
    /\ device' = [device EXCEPT !.padding = @ - frames]
    /\ scall' = [NoSinkCall EXCEPT !.op = "play", !.ok = TRUE]
    /\ UNCHANGED <<l3, sbr, sdbg, sn>>

DoOnPullEvent(layer2Null, failAt, statsDue, outOfRange) ==
    /\ sn.pulls < MaxPullEvents
    /\ LET r == OnPullEvent(l3, sbr, device, layer2Null, failAt, statsDue, outOfRange)
       IN /\ failAt = "none" \/ r # OnPullEvent(l3, sbr, device, layer2Null, "none", statsDue,
                                                 outOfRange)
          /\ l3' = r.a
          /\ sbr' = r.b
          /\ device' = r.dev
          /\ scall' = [op |-> "OnPullEvent", ok |-> r.ret, availFrames |-> r.availFrames,
                       layer2Null |-> layer2Null, failAt |-> failAt]
    /\ sn' = [sn EXCEPT !.pulls = @ + 1]
    /\ UNCHANGED sdbg

SinkNext ==
    \/ SinkBridgeInitialize
    \/ SinkFeed
    \/ \E cfg \in SinkConfigs, failAt \in SinkFailPoints : SinkInitialize(cfg, failAt)
    \/ SinkShutdown
    \/ \E frames \in 1..2 : DevicePlays(frames)
    \/ \E layer2Null \in BOOLEAN, failAt \in PullFailPoints, statsDue \in BOOLEAN, outOfRange \in OutOfRangeChoices :
           DoOnPullEvent(layer2Null, failAt, statsDue, outOfRange)

\* ------------------------------------------------------------------------
\* The bridge fed by chunks (ProcessFromPaula) at rates close to each other
\* ------------------------------------------------------------------------

VARIABLES
    cbr,       \* the AudioLayer2 object
    cdbg,      \* g_audioDebugVars
    ccall,     \* the last call made, and the rate of the last chunk processed
    cn         \* calls made so far

chunkVars == <<cbr, cdbg, ccall, cn>>

\* the resampler steps by more than the 3 frames of a chunk per output
\* frame, so that a position is carried over from one chunk to the next
ChunkConfig == [targetSampleRate |-> 1000, channels |-> 2, ringBufferFrames |-> 16]

\* cpuCyclesPerSample of 3207.27 Hz, 3150 Hz and 3101.27 Hz, and a
\* cpuCyclesPerSample that is not a number
NearbyCycles == {1375, 1400, 1422, NaN}

\* what (int) of a double that is not a number can produce: the behaviour
\* is undefined; cvttsd2si yields INT_MIN, fcvtzs yields 0
IntOfNaNChoices == {-2147483647 - 1, 0}

\* the float sample that is not a number (no sample of the model reaches
\* this value)
FloatNaN == 1073741824

\* the rate and the position of the resampler are numbers
ResamplerFinite(rs) == rs.inputRate # NaN /\ rs.position # NaN

\* the input frames that the loop of Process reads (lines 85-86) for a
\* resampler whose rate and position are numbers
ProcessReads(rs, input, inputFrames, output, outputCapacity) ==
    IF ~rs.initialized \/ input = NULL \/ output = NULL \/ inputFrames = 0 \/ outputCapacity = 0
    THEN {}
    ELSE UNION {{TruncDiv(rs.position + k * rs.inputRate, PosDen(rs)),
                 TruncDiv(rs.position + k * rs.inputRate, PosDen(rs)) + 1} :
                k \in 0..(ProcessLoop(rs, inputFrames, outputCapacity, 0, rs.position).outputFrames - 1)}

\* the loop of Process (lines 71-99) when the rate or the position of the
\* resampler is not a number; intOfNaN is what (int)position yields for
\* such a position.  The first iteration runs on the position the call
\* found; position += ratio then leaves a position that is not a number,
\* "inputIndex >= inputFrames - 1" is decided by intOfNaN in every later
\* iteration, and frac is not a number.
ProcessLoopNaN(rs, inputFrames, outputCapacity, intOfNaN) ==
    LET first == IF rs.position = NaN THEN intOfNaN ELSE TruncDiv(rs.position, PosDen(rs))
    IN IF outputCapacity <= 0 \/ first >= inputFrames - 1
       THEN [outputFrames |-> 0, position |-> rs.position, reads |-> {}]
       ELSE IF outputCapacity = 1 \/ intOfNaN >= inputFrames - 1
       THEN [outputFrames |-> 1, position |-> NaN, reads |-> {first, first + 1}]
       ELSE [outputFrames |-> outputCapacity, position |-> NaN,
             reads |-> {first, first + 1, intOfNaN, intOfNaN + 1}]

\* the frames that loop stores: the first one is interpolated as usual when
\* the position the call found is a number, every other sample is not a
\* number
ProcessFramesNaN(rs, input, output, outputFrames) ==
    IF outputFrames = 0 THEN output
    ELSE LET rest == MemFill(output, 0, outputFrames * rs.channels, FloatNaN)
         IN IF rs.position = NaN THEN rest
            ELSE ProcessFrames(rs, input, rest, 1)

\* int Process(input, inputFrames, output, outputCapacity) when the rate or
\* the position of the resampler is not a number: "position < 0.0" (line
\* 111) is false for such a position
ResamplerProcessNaN(rs, input, inputFrames, output, outputCapacity, intOfNaN) ==
    IF ~rs.initialized \/ input = NULL \/ output = NULL \/ inputFrames = 0 \/ outputCapacity = 0
    THEN [rs |-> rs, output |-> output, ret |-> 0, reads |-> {}]
    ELSE LET r == ProcessLoopNaN(rs, inputFrames, outputCapacity, intOfNaN)
             pos == IF r.position = NaN THEN NaN
                    ELSE IF r.position - inputFrames * PosDen(rs) < 0 THEN 0
                    ELSE r.position - inputFrames * PosDen(rs)
         IN [rs |-> [rs EXCEPT !.lastFrame = SaveLastFrame(rs, input, inputFrames),
                               !.position = pos],
             output |-> ProcessFramesNaN(rs, input, output, r.outputFrames),
             ret |-> r.outputFrames, reads |-> r.reads]

\* Process on a resampler in any state
ProcessAny(rs, input, inputFrames, output, outputCapacity, intOfNaN) ==
    IF ResamplerFinite(rs)
    THEN LET pr == ResamplerProcess(rs, input, inputFrames, output, outputCapacity)
         IN [rs |-> pr.rs, output |-> pr.output, ret |-> pr.ret,
             reads |-> ProcessReads(rs, input, inputFrames, output, outputCapacity)]
    ELSE ResamplerProcessNaN(rs, input, inputFrames, output, outputCapacity, intOfNaN)

\* the resampler is re-initialised or given the rate (lines 377-386), also
\* for a rate that is not a number: fabs(paulaRate - lastPaulaRate) > 100.0
\* is then false
PaulaConfigureAny(b, paulaRate) ==
    IF paulaRate # NaN THEN PaulaConfigure(b, paulaRate, TRUE)
    ELSE IF b.resampler = NullResampler THEN b
    ELSE [b EXCEPT !.resampler = SetInputRate(b.resampler, NaN)]

\* outputFrames (line 397), (int) of a NaN being intOfNaN
PaulaOutputFramesAny(b, frameCount, paulaRate, intOfNaN) ==
    IF paulaRate # NaN THEN PaulaOutputFrames(b, frameCount, paulaRate)
    ELSE intOfNaN + 10

\* ProcessFromPaula on an initialised bridge with a chunk that is not empty,
\* for a rate or a resampler that may be not a number: "paulaRate < 1000.0
\* || paulaRate > 200000.0" (line 363) is false for such a rate.  Yields
\* also the position Process found and the input frames it read.
ProcessFromPaulaAny(b, dv, samples, frameCount, paulaRate, intOfNaN) ==
    IF paulaRate # NaN /\ (paulaRate < RateOfInt(1000) \/ paulaRate > RateOfInt(200000))
    THEN [b |-> b, dbg |-> [dv EXCEPT !.totalProcessCalls = @ + 1],
          entry |-> 0, reads |-> {}]
    ELSE LET outputFrames == PaulaOutputFramesAny(b, frameCount, paulaRate, intOfNaN)
             b1 == GrowTemp(PaulaConfigureAny(b, paulaRate), outputFrames)
             pr == ProcessAny(b1.resampler, samples, frameCount, b1.tempBuffer,
                              outputFrames, intOfNaN)
             b2 == [b1 EXCEPT !.resampler = pr.rs, !.tempBuffer = pr.output]
             dv1 == [dv EXCEPT !.totalProcessCalls = @ + 1,
                                 !.paulaFramesGenerated = @ + frameCount]
             w == IF pr.ret > 10000 THEN [b |-> b2, dbg |-> dv1]
                  ELSE PaulaWrite(b2, dv1, pr.ret, FALSE)
         IN [b |-> w.b, dbg |-> w.dbg, entry |-> b1.resampler.position,
             reads |-> pr.reads]

\* paulaRate = syncCyclesPerSec / cpuCyclesPerSample
PaulaRateAny(cpuCyclesPerSample, syncCyclesPerSec) ==
    IF cpuCyclesPerSample = NaN THEN NaN
    ELSE PaulaRate(cpuCyclesPerSample, syncCyclesPerSec)

NoChunkCall == [op |-> "new", rate |-> 0, entry |-> 0, reads |-> {}]

ChunkInit ==
    /\ cbr = NewLayer2
    /\ cdbg = NewDebugVars
    /\ ccall = NoChunkCall
    /\ cn = [inits |-> 0, pulls |-> 0]

ChunkInitialize ==
    /\ cn.inits < MaxChunkInits
    /\ cbr' = Layer2Initialize(cbr, ChunkConfig, "none").b
    /\ ccall' = [NoChunkCall EXCEPT !.op = "Initialize"]
    /\ cn' = [cn EXCEPT !.inits = @ + 1]
    /\ UNCHANGED cdbg

\* ProcessFromPaula with a chunk of 3 frames; the call record keeps the
\* rate of the chunk, the position Process found and the input frames it
\* read
ChunkFeed(cpuCyclesPerSample, intOfNaN) ==
    /\ cbr.initialized
    /\ cdbg.totalProcessCalls < MaxChunkCalls
    /\ \/ cpuCyclesPerSample = NaN
       \/ ~ResamplerFinite(cbr.resampler)
       \/ intOfNaN = 0
    /\ LET r == ProcessFromPaulaAny(cbr, cdbg, ChunkData(3, cbr.config.channels), 3,
                                    PaulaRateAny(cpuCyclesPerSample, syncbase), intOfNaN)
       IN /\ cbr' = r.b
          /\ cdbg' = r.dbg
          /\ ccall' = [op |-> "ProcessFromPaula",
                       rate |-> PaulaRateAny(cpuCyclesPerSample, syncbase),
                       entry |-> r.entry, reads |-> r.reads]
    /\ UNCHANGED cn

\* the sink takes one frame
ChunkPull ==
    /\ cbr.initialized
    /\ cn.pulls < MaxChunkPulls
    /\ cbr' = PullSamples(cbr, MemUninit(PullChannels), 1).b
    /\ ccall' = [ccall EXCEPT !.op = "PullSamples"]
    /\ cn' = [cn EXCEPT !.pulls = @ + 1]
    /\ UNCHANGED cdbg

ChunkNext ==
    \/ ChunkInitialize
    \/ \E c \in NearbyCycles, intOfNaN \in IntOfNaNChoices : ChunkFeed(c, intOfNaN)
    \/ ChunkPull

\* ------------------------------------------------------------------------
\* Initialize and Shutdown of the bridge, statement by statement
\* ------------------------------------------------------------------------

VARIABLES
    lbr,       \* the AudioLayer2 object
    ldbg,      \* g_audioDebugVars
    lst        \* the call in progress: its position, its arguments, the
               \* bridge as the call found it, and the calls made so far

lifecycleVars == <<lbr, ldbg, lst>>

LifecycleConfigs == Configs

LifecycleIdle ==
    [pc |-> "idle", op |-> "none", cfg |-> NewLayer2.config, failAt |-> "none",
     entry |-> NewLayer2, calls |-> 0, chunks |-> 0]

LifecycleInit ==
    /\ lbr = NewLayer2
    /\ ldbg = NewDebugVars
    /\ lst = LifecycleIdle

\* Initialize(cfg) is called (line 72-75): an initialised bridge is shut
\* down first
InitializeCalled(cfg, failAt) ==
    /\ lst.pc = "idle"
    /\ lst.calls < MaxLifecycleCalls
    /\ lst' = [lst EXCEPT !.pc = IF lbr.initialized THEN "releaseInput" ELSE "config",
                          !.op = "Initialize", !.cfg = cfg, !.failAt = failAt,
                          !.entry = lbr, !.calls = @ + 1]
    /\ UNCHANGED <<lbr, ldbg>>

\* config = cfg; rateMeasurement = RateMeasurement(); the validation
\* (lines 77-85)
InitializeConfig ==
    /\ lst.pc = "config"
    /\ lbr' = [lbr EXCEPT !.config = lst.cfg, !.rateMeasurement = NewRateMeasurement]
    /\ lst' = [lst EXCEPT !.pc = IF \/ lst.cfg.targetSampleRate <= 0
                                    \/ lst.cfg.channels <= 0
                                    \/ lst.cfg.ringBufferFrames <= 0
                                 THEN "idle" ELSE "createInput"]
    /\ UNCHANGED ldbg

\* the input ring (lines 88-98)
InitializeInput ==
    /\ lst.pc = "createInput"
    /\ LET inputCapacity == IF lbr.config.targetSampleRate \div 100 < 16 THEN 16
                            ELSE lbr.config.targetSampleRate \div 100
           inR == RingInitialize(NewRing, U32(inputCapacity), lbr.config.channels,
                                 lst.failAt # "inputBuffer")
       IN /\ lbr' = [lbr EXCEPT !.inputBuffer = IF inR.ret THEN inR.rb ELSE NullRing]
          /\ lst' = [lst EXCEPT !.pc = IF inR.ret THEN "createOutput" ELSE "idle"]
    /\ UNCHANGED ldbg

\* the output ring (lines 100-107)
InitializeOutput ==
    /\ lst.pc = "createOutput"
    /\ LET outR == RingInitialize(NewRing, U32(lbr.config.ringBufferFrames),
                                  lbr.config.channels, lst.failAt # "ringBuffer")
       IN /\ lbr' = [lbr EXCEPT !.ringBuffer = IF outR.ret THEN outR.rb ELSE NullRing]
          /\ lst' = [lst EXCEPT !.pc = IF outR.ret THEN "createResampler" ELSE "idle"]
    /\ UNCHANGED ldbg

\* resampler = new AudioResampler() (line 110)
InitializeResampler ==
    /\ lst.pc = "createResampler"
    /\ lbr' = [lbr EXCEPT !.resampler = NewResampler]
    /\ lst' = [lst EXCEPT !.pc = "createTemp"]
    /\ UNCHANGED ldbg

\* the float scratch array (lines 113-125)
InitializeTemp ==
    /\ lst.pc = "createTemp"
    /\ lbr' = IF lst.failAt = "tempBuffer"
              THEN [lbr EXCEPT !.tempBufferCapacity = 2048, !.tempBuffer = NULL,
                               !.inputBuffer = NullRing, !.ringBuffer = NullRing,
                               !.resampler = NullResampler]
              ELSE [lbr EXCEPT !.tempBufferCapacity = 2048,
                               !.tempBuffer = MemUninit(2048 * lbr.config.channels)]
    /\ lst' = [lst EXCEPT !.pc = IF lst.failAt = "tempBuffer" THEN "idle"
                                 ELSE "createInputTemp"]
    /\ UNCHANGED ldbg

\* the int16 scratch array (lines 128-141)
InitializeInputTemp ==
    /\ lst.pc = "createInputTemp"
    /\ lbr' = IF lst.failAt = "inputTempBuffer"
              THEN [lbr EXCEPT !.inputTempCapacity = 128, !.inputTempBuffer = NULL,
                               !.tempBuffer = NULL, !.inputBuffer = NullRing,
                               !.ringBuffer = NullRing, !.resampler = NullResampler]
              ELSE [lbr EXCEPT !.inputTempCapacity = 128,
                               !.inputTempBuffer = MemUninit(128 * lbr.config.channels)]
    /\ lst' = [lst EXCEPT !.pc = IF lst.failAt = "inputTempBuffer" THEN "idle"
                                 ELSE "setInitialized"]
    /\ UNCHANGED ldbg

\* initialized = true (line 143)
InitializeDone ==
    /\ lst.pc = "setInitialized"
    /\ lbr' = [lbr EXCEPT !.initialized = TRUE]
    /\ lst' = [lst EXCEPT !.pc = "idle"]
    /\ UNCHANGED ldbg

\* Shutdown() is called (line 154)
ShutdownCalled ==
    /\ lst.pc = "idle"
    /\ lst.calls < MaxLifecycleCalls
    /\ lst' = [lst EXCEPT !.pc = IF lbr.initialized THEN "releaseInput" ELSE "idle",
                          !.op = "Shutdown", !.entry = lbr, !.calls = @ + 1]
    /\ UNCHANGED <<lbr, ldbg>>

\* lines 156-160
ShutdownInput ==
    /\ lst.pc = "releaseInput"
    /\ lbr' = [lbr EXCEPT !.inputBuffer = NullRing]
    /\ lst' = [lst EXCEPT !.pc = "releaseOutput"]
    /\ UNCHANGED ldbg

\* lines 162-166
ShutdownOutput ==
    /\ lst.pc = "releaseOutput"
    /\ lbr' = [lbr EXCEPT !.ringBuffer = NullRing]
    /\ lst' = [lst EXCEPT !.pc = "releaseResampler"]
    /\ UNCHANGED ldbg

\* lines 168-172
ShutdownResampler ==
    /\ lst.pc = "releaseResampler"
    /\ lbr' = [lbr EXCEPT !.resampler = NullResampler]
    /\ lst' = [lst EXCEPT !.pc = "releaseTemp"]
    /\ UNCHANGED ldbg

\* lines 174-177
ShutdownTemp ==
    /\ lst.pc = "releaseTemp"
    /\ lbr' = [lbr EXCEPT !.tempBuffer = NULL]
    /\ lst' = [lst EXCEPT !.pc = "releaseInputTemp"]
    /\ UNCHANGED ldbg

\* lines 179-182
ShutdownInputTemp ==
    /\ lst.pc = "releaseInputTemp"
    /\ lbr' = [lbr EXCEPT !.inputTempBuffer = NULL]
    /\ lst' = [lst EXCEPT !.pc = "clearInitialized"]
    /\ UNCHANGED ldbg

\* lines 184-186; the Shutdown that Initialize called returns into it
ShutdownDone ==
    /\ lst.pc = "clearInitialized"
    /\ lbr' = [lbr EXCEPT !.tempBufferCapacity = 0, !.inputTempCapacity = 0,
                          !.initialized = FALSE]
    /\ lst' = [lst EXCEPT !.pc = IF lst.op = "Initialize" THEN "config" ELSE "idle"]
    /\ UNCHANGED ldbg

\* between two calls the bridge is used: a chunk of 3 frames at the target
\* rate
LifecycleFeed ==
    /\ lst.pc = "idle"
    /\ lbr.initialized
    /\ lst.chunks < MaxLifecycleChunks
    /\ LET r == ProcessFromPaula(lbr, ldbg, ChunkData(3, lbr.config.channels), 3,
                                 NominalCycles(lbr), syncbase, TRUE, FALSE)
       IN lbr' = r.b /\ ldbg' = r.dbg
    /\ lst' = [lst EXCEPT !.op = "ProcessFromPaula", !.chunks = @ + 1]

LifecycleNext ==
    \/ \E cfg \in LifecycleConfigs, failAt \in FailPoints : InitializeCalled(cfg, failAt)
    \/ InitializeConfig
    \/ InitializeInput
    \/ InitializeOutput
    \/ InitializeResampler
    \/ InitializeTemp
    \/ InitializeInputTemp
    \/ InitializeDone
    \/ ShutdownCalled
    \/ ShutdownInput
    \/ ShutdownOutput
    \/ ShutdownResampler
    \/ ShutdownTemp
    \/ ShutdownInputTemp
    \/ ShutdownDone
    \/ LifecycleFeed

\* ------------------------------------------------------------------------
\* The direct-write path of the bridge under a producer that keeps pushing
\* ------------------------------------------------------------------------

VARIABLES
    pbr,       \* the AudioLayer2 object
    pdbg,      \* g_audioDebugVars
    pcall,     \* the last call made, and whether its drain read frames
    pn         \* PushSample calls made so far

progressVars == <<pbr, pdbg, pcall, pn>>

NoProgressCall == [op |-> "new", drained |-> FALSE]

\* configurations that Initialize accepts: input rings of 16 frames (target
\* rates up to 1600 Hz) and of 32 frames
ProgressConfigs ==
    {[targetSampleRate |-> 1000, channels |-> 2, ringBufferFrames |-> 16],
     [targetSampleRate |-> 1600, channels |-> 1, ringBufferFrames |-> 16],
     [targetSampleRate |-> 1700, channels |-> 2, ringBufferFrames |-> 32],
     [targetSampleRate |-> 2000, channels |-> 1, ringBufferFrames |-> 8]}

ProgressInit ==
    /\ pbr = NewLayer2
    /\ pdbg = NewDebugVars
    /\ pcall = NoProgressCall
    /\ pn = 0

ProgressInitialize(cfg) ==
    /\ ~pbr.initialized
    /\ pbr' = Layer2Initialize(pbr, cfg, "none").b
    /\ pcall' = [NoProgressCall EXCEPT !.op = "Initialize"]
    /\ UNCHANGED <<pdbg, pn>>

\* the producer is about to call PushSample once more
ProducerCalls ==
    /\ pbr.initialized
    /\ pn < MaxProgressPushes
    /\ pn' = pn + 1

\* PushSample at the nominal rate of the configuration
ProgressPush ==
    /\ ProducerCalls
    /\ pbr' = PushSample(pbr, pdbg, 1, -1, NominalCycles(pbr), TRUE).b
    /\ pdbg' = PushSample(pbr, pdbg, 1, -1, NominalCycles(pbr), TRUE).dbg
    /\ pcall' = [op |-> "PushSample",
                 drained |-> GetAvailableRead(pbr'.inputBuffer) = 0]

\* the sink takes up to 8 frames
ProgressPull ==
    /\ pbr.initialized
    /\ pbr.ringBuffer.stats.totalRead < MaxProgressPulled
    /\ GetAvailableRead(pbr.ringBuffer) > 0
    /\ pbr' = PullSamples(pbr, MemUninit(8 * PullChannels), 8).b
    /\ pcall' = [NoProgressCall EXCEPT !.op = "PullSamples"]
    /\ UNCHANGED <<pdbg, pn>>

ProgressNext ==
    \/ \E cfg \in ProgressConfigs : ProgressInitialize(cfg)
    \/ ProgressPush
    \/ ProgressPull

\* ------------------------------------------------------------------------
\* AudioRingBuffer<T>::Initialize up to the return of NextPowerOf2, one
\* statement or one loop iteration per step
\* ------------------------------------------------------------------------

VARIABLES
    np         \* the call in progress: its position, capacityFrames (n),
               \* power, the parity of the iterations made, the calls so far

roundingVars == <<np>>

\* requested capacities from 0 to 2^32 - 1: small ones, powers of two,
\* 2^16 + 1, 2^29 - 1, 2^31 - 1, 2^31, 2^31 + 1, 2^31 + 2^16 and 2^32 - 1
RoundingRequests ==
    {U32(k) : k \in 0..6}
    \cup {[hi |-> 1, lo |-> 1], [hi |-> 8191, lo |-> 65535], [hi |-> 16384, lo |-> 0],
          [hi |-> 32767, lo |-> 65535], [hi |-> 32768, lo |-> 0],
          [hi |-> 32768, lo |-> 1], [hi |-> 32769, lo |-> 0],
          [hi |-> 65535, lo |-> 65535]}

RoundingIdle == [pc |-> "idle", n |-> U32Zero, power |-> U32Zero, odd |-> FALSE, calls |-> 0]

RoundingInit == np = RoundingIdle

\* Initialize(capacityFrames, numChannels) is called and calls
\* NextPowerOf2(capacityFrames)
InitializeEnters(n) ==
    /\ np.pc \in {"idle", "returned"}
    /\ np.calls < MaxRoundingCalls
    /\ np' = [pc |-> "zero", n |-> n, power |-> U32Zero, odd |-> FALSE,
              calls |-> np.calls + 1]

\* if (n == 0) return 1;
Np2Zero ==
    /\ np.pc = "zero"
    /\ np' = IF U32IsZero(np.n) THEN [np EXCEPT !.pc = "rest", !.power = U32One]
             ELSE [np EXCEPT !.pc = "mask"]

\* if ((n & (n - 1)) == 0) return n;  uint32_t power = 1;
Np2Mask ==
    /\ np.pc = "mask"
    /\ np' = IF U32IsZero(U32And(np.n, U32Dec(np.n)))
             THEN [np EXCEPT !.pc = "rest", !.power = np.n]
             ELSE [np EXCEPT !.pc = "loop", !.power = U32One]

\* while (power < n) power <<= 1;  one iteration
Np2Shift ==
    /\ np.pc = "loop"
    /\ U32Lt(np.power, np.n)
    /\ np' = [np EXCEPT !.power = Shl1(np.power), !.odd = ~np.odd]

\* power < n is false: return power;
Np2Leave ==
    /\ np.pc = "loop"
    /\ ~U32Lt(np.power, np.n)
    /\ np' = [np EXCEPT !.pc = "rest"]

\* the statements of Initialize after NextPowerOf2 has returned, none of
\* which is a loop of Initialize: Initialize returns
InitializeReturns ==
    /\ np.pc = "rest"
    /\ np' = [np EXCEPT !.pc = "returned"]

\* the thread that called Initialize executes the next statement
RoundingStep ==
    \/ Np2Zero
    \/ Np2Mask
    \/ Np2Shift
    \/ Np2Leave
    \/ InitializeReturns

RoundingNext ==
    \/ \E n \in RoundingRequests : InitializeEnters(n)
    \/ RoundingStep

\* ------------------------------------------------------------------------
\* The specifications
\* ------------------------------------------------------------------------

vars ==
    <<ringVars, spscVars, bridgeVars, threadVars,
      rateVars, resamplerVars, estimatorVars, sinkVars, chunkVars,
      lifecycleVars, progressVars, roundingVars>>

AllInit ==
    /\ RingInit /\ SpscInit /\ BridgeInit /\ ThreadsInit
    /\ RateInit /\ ResamplerInit /\ EstimatorInit /\ SinkInit
    /\ ChunkInit /\ LifecycleInit /\ ProgressInit /\ RoundingInit

SpecRing ==
    /\ AllInit
    /\ [][/\ RingNext
          /\ UNCHANGED <<spscVars, bridgeVars, threadVars, rateVars,
                      resamplerVars, estimatorVars, sinkVars, chunkVars,
                      lifecycleVars, progressVars, roundingVars>>]_vars

SpecSPSC ==
    /\ AllInit
    /\ [][/\ SpscNext
          /\ UNCHANGED <<ringVars, bridgeVars, threadVars, rateVars,
                      resamplerVars, estimatorVars, sinkVars, chunkVars,
                      lifecycleVars, progressVars, roundingVars>>]_vars

Spec ==
    /\ AllInit
    /\ [][/\ BridgeNext
          /\ UNCHANGED <<ringVars, spscVars, threadVars, rateVars,
                      resamplerVars, estimatorVars, sinkVars, chunkVars,
                      lifecycleVars, progressVars, roundingVars>>]_vars

\* what the steps of SpecThreads leave alone
ThreadsFrame ==
    UNCHANGED <<ringVars, spscVars, bridgeVars, rateVars,
                resamplerVars, estimatorVars, sinkVars, chunkVars,
                lifecycleVars, progressVars, roundingVars>>

\* a thread that the scheduler has not stopped goes on with the call it is in
SpecThreads ==
    /\ AllInit
    /\ [][ThreadsNext /\ ThreadsFrame]_vars
    /\ WF_vars(ProducerStep /\ ThreadsFrame)
    /\ WF_vars(SinkStep /\ ThreadsFrame)

SpecRate ==
    /\ AllInit
    /\ [][/\ RateNext
          /\ UNCHANGED <<ringVars, spscVars, bridgeVars, threadVars,
                      resamplerVars, estimatorVars, sinkVars, chunkVars,
                      lifecycleVars, progressVars, roundingVars>>]_vars

SpecResampler ==
    /\ AllInit
    /\ [][/\ ResamplerNext
          /\ UNCHANGED <<ringVars, spscVars, bridgeVars, threadVars,
                      rateVars, estimatorVars, sinkVars, chunkVars,
                      lifecycleVars, progressVars, roundingVars>>]_vars

SpecEstimator ==
    /\ AllInit
    /\ [][/\ EstimatorNext
          /\ UNCHANGED <<ringVars, spscVars, bridgeVars, threadVars,
                      rateVars, resamplerVars, sinkVars, chunkVars,
                      lifecycleVars, progressVars, roundingVars>>]_vars

SpecSink ==
    /\ AllInit
    /\ [][/\ SinkNext
          /\ UNCHANGED <<ringVars, spscVars, bridgeVars, threadVars,
                      rateVars, resamplerVars, estimatorVars, chunkVars,
                      lifecycleVars, progressVars, roundingVars>>]_vars

SpecChunk ==
    /\ AllInit
    /\ [][/\ ChunkNext
          /\ UNCHANGED <<ringVars, spscVars, bridgeVars, threadVars, rateVars,
                      resamplerVars, estimatorVars, sinkVars,
                      lifecycleVars, progressVars, roundingVars>>]_vars

SpecLifecycle ==
    /\ AllInit
    /\ [][/\ LifecycleNext
          /\ UNCHANGED <<ringVars, spscVars, bridgeVars, threadVars, rateVars,
                      resamplerVars, estimatorVars, sinkVars, chunkVars,
                      progressVars, roundingVars>>]_vars

\* what the steps of SpecProgress leave alone
ProgressFrame ==
    UNCHANGED <<ringVars, spscVars, bridgeVars, threadVars, rateVars,
                resamplerVars, estimatorVars, sinkVars, chunkVars,
                lifecycleVars, roundingVars>>

\* the producer goes on calling PushSample: every step that counts a call
\* is a whole PushSample call
SpecProgress ==
    /\ AllInit
    /\ [][ProgressNext /\ ProgressFrame]_vars
    /\ WF_pn(ProducerCalls)

\* what the steps of SpecRounding leave alone
RoundingFrame ==
    UNCHANGED <<ringVars, spscVars, bridgeVars, threadVars, rateVars,
                resamplerVars, estimatorVars, sinkVars, chunkVars,
                lifecycleVars, progressVars>>

\* the thread inside Initialize goes on executing
SpecRounding ==
    /\ AllInit
    /\ [][RoundingNext /\ RoundingFrame]_vars
    /\ WF_np(RoundingStep)

\* ------------------------------------------------------------------------
\* Properties of the stand-alone ring (SpecRing)
\* ------------------------------------------------------------------------

\* the ring owns a buffer: Initialize returned true and no Shutdown followed
RingInitialised(rb) == rb.buffer # NULL

IsPowerOfTwo(c) == \E k \in 0..30 : c = 2^k

\* C1: with one producer inside Write and one consumer inside Read, at every
\* moment the frames returned by the Reads so far, in call order, are a prefix
\* of the frames of the Writes whose new write position has been stored, in
\* call order
C1_ReadsPrefixOfWrites ==
    /\ Len(rlog) <= Len(wlog)
    /\ \A k \in 1..Len(rlog) : rlog[k] = wlog[k]

\* after a first Read has returned a frame, the consumer is about to copy a
\* frame out while the producer is in the middle of copying two frames in
C1_Witness ==
    /\ Len(rlog) >= 1
    /\ prod.pc = "copy" /\ prod.i = 1 /\ prod.frameCount = 2
    /\ cons.pc = "copy" /\ cons.i = 0 /\ cons.toRead = 1

\* C2: in every state of an initialised ring GetAvailableRead() +
\* GetAvailableWrite() = capacity - 1 and 0 <= GetAvailableRead() <= capacity - 1
C2_AvailableSum ==
    RingInitialised(ring) =>
        /\ GetAvailableRead(ring) + GetAvailableWrite(ring) = ring.capacity - 1
        /\ 0 <= GetAvailableRead(ring)
        /\ GetAvailableRead(ring) <= ring.capacity - 1

\* an initialised ring whose write position has wrapped behind its read
\* position and that is neither empty nor full
C2_Witness ==
    /\ RingInitialised(ring)
    /\ ring.writePos < ring.readPos
    /\ GetAvailableRead(ring) > 0
    /\ GetAvailableWrite(ring) > 0

\* C3: whenever Initialize(requested, channels) returns true, capacity is the
\* smallest power of two >= max(requested, 1), capacityMask = capacity - 1,
\* both positions are 0 and the four statistics counters are 0
C3_InitializePost ==
    (rcall.op = "Initialize" /\ rcall.returned /\ rcall.ret) =>
        LET requested == U32ToInt(rcall.n)
            want == IF requested < 1 THEN 1 ELSE requested
        IN /\ IsPowerOfTwo(ring.capacity)
           /\ ring.capacity >= want
           /\ \A k \in 0..30 : 2^k >= want => ring.capacity <= 2^k
           /\ ring.capacityMask = ring.capacity - 1
           /\ ring.writePos = 0
           /\ ring.readPos = 0
           /\ ring.stats = ZeroStats

\* a second Initialize, of a ring that had been used, with a request that is
\* not a power of two, returned true
C3_Witness ==
    /\ rcall.op = "Initialize" /\ rcall.returned /\ rcall.ret
    /\ rcall.n = U32(3)
    /\ rinits = 2
    /\ rnext > 0

\* C4: on an initialised ring a Write of more frames than GetAvailableWrite()
\* returns false, adds one to overruns and changes nothing else
C4_OverrunWrite ==
    [][(/\ rcall'.op = "Write"
        /\ RingInitialised(ring)
        /\ rcall'.data # NULL
        /\ rcall'.frameCount > GetAvailableWrite(ring))
       => (/\ rcall'.ret = FALSE
           /\ ring' = [ring EXCEPT !.stats.overruns = @ + 1])]_vars

\* a Write was refused on a ring that holds frames and still has room for
\* fewer frames than were offered
C4_Witness ==
    /\ rcall.op = "Write" /\ rcall.data # NULL /\ ~rcall.ret
    /\ RingInitialised(ring)
    /\ rcall.frameCount > GetAvailableWrite(ring)
    /\ GetAvailableWrite(ring) > 0
    /\ GetAvailableRead(ring) > 0
    /\ ring.stats.overruns = 1

\* what C5 and its original statement promise of a successful Write
WriteSucceeds ==
    /\ rcall'.ret = TRUE
    /\ GetAvailableRead(ring') = GetAvailableRead(ring) + rcall'.frameCount
    /\ ring'.stats.totalWritten = ring.stats.totalWritten + rcall'.frameCount
    /\ ring'.readPos = ring.readPos
    /\ ring'.stats.overruns = ring.stats.overruns
    /\ ring'.stats.underruns = ring.stats.underruns

\* C5 as stated: for every frames <= GetAvailableWrite(), Write returns true,
\* GetAvailableRead() and total_written grow by frames, the read position,
\* overruns and underruns are unchanged
C5_Original ==
    [][(/\ rcall'.op = "Write"
        /\ RingInitialised(ring)
        /\ rcall'.data # NULL
        /\ rcall'.frameCount <= GetAvailableWrite(ring))
       => WriteSucceeds]_vars

\* C5 (amended): the same for every frames with 1 <= frames <=
\* GetAvailableWrite(); a Write of 0 frames returns false
C5_WriteFits ==
    [][(/\ rcall'.op = "Write"
        /\ RingInitialised(ring)
        /\ rcall'.data # NULL
        /\ rcall'.frameCount <= GetAvailableWrite(ring))
       => IF rcall'.frameCount >= 1
          THEN WriteSucceeds
          ELSE rcall'.ret = FALSE /\ ring' = ring]_vars

\* a Write that exactly filled the free space of a ring succeeded, the write
\* position wrapping round
C5_Witness ==
    /\ rcall.op = "Write" /\ rcall.ret
    /\ rcall.frameCount >= 2
    /\ GetAvailableWrite(ring) = 0
    /\ ring.writePos < ring.readPos

\* C6: on an initialised ring Read(dst, frames) with frames >= 1 returns
\* n = min(frames, GetAvailableRead()), copies the n oldest frames in order,
\* advances the read position by n modulo capacity, adds n to total_read and
\* adds one to underruns exactly when n < frames; write position, overruns
\* and total_written are unchanged
C6_Read ==
    [][(/\ rcall'.op = "Read"
        /\ RingInitialised(ring)
        /\ rcall'.data # NULL
        /\ rcall'.frameCount >= 1)
       => LET n == Min(rcall'.frameCount, GetAvailableRead(ring))
          IN /\ rcall'.count = n
             /\ \A i \in 0..(n - 1) : \A ch \in 0..(ring.channels - 1) :
                    MemLoad(rcall'.data, i * ring.channels + ch)
                      = MemLoad(ring.buffer,
                                ((ring.readPos + i) % ring.capacity) * ring.channels + ch)
             /\ \A j \in (n * ring.channels)..(rcall'.frameCount * ring.channels - 1) :
                    ~MemWritten(rcall'.data, j)
             /\ ring'.readPos = (ring.readPos + n) % ring.capacity
             /\ ring'.stats.totalRead = ring.stats.totalRead + n
             /\ ring'.stats.underruns
                  = ring.stats.underruns + (IF n < rcall'.frameCount THEN 1 ELSE 0)
             /\ ring'.writePos = ring.writePos
             /\ ring'.buffer = ring.buffer
             /\ ring'.stats.overruns = ring.stats.overruns
             /\ ring'.stats.totalWritten = ring.stats.totalWritten]_vars

\* a Read asked for more frames than were queued and got the queued ones,
\* which lay across the end of the buffer
C6_Witness ==
    /\ rcall.op = "Read" /\ rcall.data # NULL
    /\ RingInitialised(ring)
    /\ rcall.count >= 2
    /\ rcall.count < rcall.frameCount
    /\ ring.readPos < rcall.count
    /\ ring.stats.underruns = 1

\* ------------------------------------------------------------------------
\* Properties of the bridge (Spec)
\* ------------------------------------------------------------------------

\* cell j of the array holds the value v
CellIs(mem, j, v) ==
    IF MemWritten(mem, j) THEN mem.m[j] = v ELSE mem.def = Zeroed /\ v = 0

\* the frames queued in a ring, oldest first, each a tuple of its channels
QueuedFrames(rb) ==
    [f \in 1..GetAvailableRead(rb) |->
        [ch \in 1..rb.channels |->
            MemLoad(rb.buffer, FrameIdx(rb, rb.readPos, f - 1) * rb.channels + (ch - 1))]]

\* frame f (from 0) of an array of frames of the given channel count
FrameOf(mem, f, channels) ==
    [ch \in 1..channels |-> MemLoad(mem, f * channels + (ch - 1))]

\* what PullSamples does on an initialised bridge, for the frames queued in
\* the output ring before the call (all but the underrun count)
PullDelivers ==
    LET n == bcall'.requestedFrames
        ch == br.config.channels
        queued == QueuedFrames(br.ringBuffer)
        k == Min(n, Len(queued))
    IN /\ bcall'.ret = n
       /\ \A f \in 0..(k - 1) : FrameOf(bcall'.output, f, ch) = queued[f + 1]
       /\ \A j \in (k * ch)..(n * ch - 1) : CellIs(bcall'.output, j, 0)
       /\ QueuedFrames(br'.ringBuffer) = SubSeq(queued, k + 1, Len(queued))

PullOnInitialized ==
    /\ bcall'.op = "PullSamples"
    /\ br.initialized
    /\ bcall'.output # NULL

\* C7 as stated: in the Initialized state pull_samples(dst, n) returns n for
\* every n >= 0, the first k = min(n, queued) frames of dst are the k oldest
\* frames of the output ring in order, the other n - k frames are zero, and
\* with an empty ring the underrun counter increases by exactly one
C7_Original ==
    [][PullOnInitialized
       => /\ PullDelivers
          /\ GetAvailableRead(br.ringBuffer) = 0
               => br'.ringBuffer.stats.underruns = br.ringBuffer.stats.underruns + 1]_vars

\* C7: in the Initialized state pull_samples(dst, n) returns n for every
\* n >= 0, the first k = min(n, queued) frames of dst are the k oldest frames
\* of the output ring in order and the other n - k frames are zero; with an
\* empty ring the underrun counter increases by exactly one when n >= 1, and
\* a pull of n = 0 frames changes nothing
C7_PullSamples ==
    [][PullOnInitialized
       => /\ PullDelivers
          /\ (GetAvailableRead(br.ringBuffer) = 0 /\ bcall'.requestedFrames >= 1)
               => br'.ringBuffer.stats.underruns = br.ringBuffer.stats.underruns + 1
          /\ bcall'.requestedFrames = 0 => br' = br]_vars

\* a pull asked for more frames than the output ring held: it got the queued
\* ones, then zeros
C7_Witness ==
    /\ bcall.op = "PullSamples" /\ br.initialized
    /\ bcall.ret = MaxPullFrames
    /\ br.ringBuffer.stats.totalRead >= 2
    /\ br.ringBuffer.stats.totalRead < MaxPullFrames
    /\ br.ringBuffer.stats.underruns = 1
    /\ ~CellIs(bcall.output, 0, 0)
    /\ CellIs(bcall.output, MaxPullFrames * br.config.channels - 1, 0)

\* C8: when push_sample finds the input ring full, the oldest queued frame
\* is removed, the pushed frame becomes the newest, the other frames keep
\* their order, and the overrun counter (of the ring and of the debug
\* variables) increases by exactly one
C8_PushDropsOldest ==
    [][(/\ bcall'.op = "PushSample"
        /\ br.initialized
        /\ br.inputBuffer # NullRing
        /\ GetAvailableWrite(br.inputBuffer) = 0)
       => LET k == dbg.pushSampleCalls + 1
              pushed == SubSeq(<<k, -k>>, 1, br.inputBuffer.channels)
          IN /\ QueuedFrames(br'.inputBuffer)
                  = Append(Tail(QueuedFrames(br.inputBuffer)), pushed)
             /\ br'.inputBuffer.stats.overruns = br.inputBuffer.stats.overruns + 1
             /\ dbg'.layer2Overruns = dbg.layer2Overruns + 1]_vars

\* a push found the input ring full: the ring is full again and its oldest
\* frame is the second frame pushed
C8_Witness ==
    /\ bcall.op = "PushSample" /\ br.initialized
    /\ br.inputBuffer.stats.overruns = 1
    /\ dbg.layer2Overruns = 1
    /\ GetAvailableWrite(br.inputBuffer) = 0
    /\ Head(QueuedFrames(br.inputBuffer)) = <<2, -2>>

\* C9: while the bridge is Uninitialized, push_sample, ProcessFromPaula,
\* pull_samples and fill_fraction change nothing of the bridge, pull_samples
\* returns 0 and writes no cell of the destination, and the fill is 0
C9_UninitializedNoOps ==
    [][(/\ ~br.initialized
        /\ bcall'.op \in {"PushSample", "ProcessFromPaula", "PullSamples",
                          "GetBufferFillPercent"})
       => /\ br' = br
          /\ bcall'.op = "PullSamples"
               => (bcall'.ret = 0
                   /\ \A j \in 0..(bcall'.requestedFrames * PullChannels - 1) :
                          ~MemWritten(bcall'.output, j))
          /\ bcall'.op = "GetBufferFillPercent" => bcall'.fill.num = 0]_vars

\* a sample was pushed after an Initialize that failed having created the
\* input ring: the ring is still empty
C9_Witness ==
    /\ bcall.op = "PushSample"
    /\ ~br.initialized
    /\ br.inputBuffer # NullRing
    /\ GetAvailableRead(br.inputBuffer) = 0
    /\ dbg.pushSampleCalls >= 1

\* all owned components of the bridge are allocated
AllLive(b) ==
    /\ b.inputBuffer # NullRing /\ b.ringBuffer # NullRing
    /\ b.resampler # NullResampler
    /\ b.tempBuffer # NULL /\ b.inputTempBuffer # NULL

\* all owned components of the bridge are released
AllReleased(b) ==
    /\ b.inputBuffer = NullRing /\ b.ringBuffer = NullRing
    /\ b.resampler = NullResampler
    /\ b.tempBuffer = NULL /\ b.inputTempBuffer = NULL

\* C10 as stated: after any sequence of calls, initialized = true implies
\* that both rings, the resampler and both scratch buffers are live; a second
\* init on an Initialized bridge re-creates them from scratch; and after
\* shutdown all of them are released and initialized = false
C10_Lifecycle ==
    [][/\ br'.initialized => AllLive(br')
       /\ (bcall'.op = "Initialize" /\ br.initialized)
            => \E failAt \in FailPoints :
                   br' = Layer2Initialize(Layer2Shutdown(br), bcall'.cfg, failAt).b
       /\ bcall'.op = "Shutdown" => (~br'.initialized /\ AllReleased(br'))]_vars

\* C11 as stated: whenever Initialize returns false, for an invalid
\* configuration or because the creation of the input ring, the output ring,
\* the float scratch buffer or the int16 scratch buffer failed, the bridge is
\* Uninitialized and both rings, the resampler and both scratch buffers are
\* released
C11_InitFailureReleasesAll ==
    [][(bcall'.op = "Initialize" /\ ~bcall'.ok)
       => (~br'.initialized /\ AllReleased(br'))]_vars

\* the resampler is as Initialize created it: since then no drain has read
\* frames and no chunk with a valid rate was processed
ResamplerUntouched(b) == b.initialized /\ b.resampler = NewResampler

\* a PushSample step whose drain read frames from the input ring
DrainReads == bcall'.op = "PushSample" /\ dbg'.resampleCalls > dbg.resampleCalls

\* a ProcessFromPaula step with a non-empty chunk and a rate within range
ChunkProcessed ==
    /\ bcall'.op = "ProcessFromPaula"
    /\ dbg'.paulaFramesGenerated > dbg.paulaFramesGenerated

\* C12 as stated: in an Initialized bridge, also one that was shut down and
\* initialised again, the first drain that reads frames from the input ring
\* and the first ProcessFromPaula call with a valid rate and a non-empty
\* chunk leave the resampler initialised, unless the resampler's allocation
\* fails
C12_FirstUseConfigures ==
    [][(ResamplerUntouched(br) /\ bcall'.allocOk /\ (DrainReads \/ ChunkProcessed))
       => ResamplerReady(br')]_vars

\* C13: PullSamples, the call of the sink thread, modifies of the bridge only
\* the output ring's read position, totalRead and underruns (and the
\* caller's array): the output ring's write position and slots, the input
\* ring, the resampler, the estimator and the debug counters are as before;
\* PushSample and ProcessFromPaula, the calls of the producer thread, never
\* modify the output ring's read position
C13_SingleWriter ==
    [][/\ bcall'.op = "PullSamples"
            => /\ br' = [br EXCEPT !.ringBuffer.readPos = br'.ringBuffer.readPos,
                                   !.ringBuffer.stats.totalRead = br'.ringBuffer.stats.totalRead,
                                   !.ringBuffer.stats.underruns = br'.ringBuffer.stats.underruns]
               /\ dbg' = dbg
       /\ bcall'.op \in {"PushSample", "ProcessFromPaula"}
            => br'.ringBuffer.readPos = br.ringBuffer.readPos]_vars

\* a pull got fewer frames than it asked for from an output ring that held
\* frames, while the input ring holds a pushed frame and the resampler and
\* the estimator are in use
C13_Witness ==
    /\ bcall.op = "PullSamples" /\ br.initialized
    /\ br.ringBuffer.readPos > 0
    /\ br.ringBuffer.stats.totalRead >= 2
    /\ br.ringBuffer.stats.underruns = 1
    /\ GetAvailableRead(br.inputBuffer) >= 1
    /\ ResamplerReady(br)
    /\ br.rateMeasurement.currentRate > 0

\* ------------------------------------------------------------------------
\* Properties of the two threads (SpecThreads)
\* ------------------------------------------------------------------------

\* C14: every PushSample call and every PullSamples call on an Initialized
\* bridge returns after finitely many steps of the calling thread, however
\* the other thread is scheduled and also when it never runs again: a call
\* that a running thread is in leads to the call's return (or to the
\* scheduler stopping the calling thread itself)
C14_WaitFree ==
    /\ (pth.running /\ pth.pc # "idle") ~> (pth.pc = "idle" \/ ~pth.running)
    /\ (sth.running /\ sth.pc # "idle") ~> (sth.pc = "idle" \/ ~sth.running)

\* the sink thread was stopped for good between its loads of the two
\* positions while the producer, still running, has returned from a call
\* that found the output ring too full for the drained frames
C14_Witness ==
    /\ ~sth.running /\ sth.pc = "loadR"
    /\ pth.running /\ pth.pc = "idle"
    /\ tb.ringBuffer.stats.overruns = 1
    /\ tdbg.layer2Overruns = 1

\* ------------------------------------------------------------------------
\* C15
\* ------------------------------------------------------------------------

\* frames of the pushed stream that have been drained into the resampler
RateConsumed == edbg.pushSampleCalls - GetAvailableRead(eb.inputBuffer)

\* C15: in the end-to-end run of a 44100 Hz producer into a 48000 Hz bridge
\* whose output ring never overruns, the number of frames written to the
\* output ring stays within 50 of consumed frames x 48000 / 44100; after
\* 44100 pushed frames it is within 50 of 48000.
C15_RateConversion ==
    eb.initialized =>
        LET written  == eb.ringBuffer.stats.totalWritten
            err      == written * ProducerRate - RateConsumed * RateConfig.targetSampleRate
        IN /\ eb.ringBuffer.stats.overruns = 0
           /\ err <= 50 * ProducerRate
           /\ -err <= 50 * ProducerRate

\* ------------------------------------------------------------------------
\* C16
\* ------------------------------------------------------------------------

\* the float that an int16 sample divided by 32768 is
SampleAsFloat(v) == v * FloatScale

\* a Process step on an initialised resampler whose input rate equals its
\* output rate, from position 0, with room for one output frame per input frame
IdentityProcess ==
    /\ rscall'.op = "Process"
    /\ rsm.initialized
    /\ rsm.inputRate = rsm.outputRate * RateScale
    /\ rsm.position = 0
    /\ rscall'.before # NULL
    /\ rscall'.inputFrames >= 1
    /\ rscall'.outputCapacity >= rscall'.inputFrames

\* got is fed, frame by frame, divided by 32768
GotIsFedScaled(f, g) == g = [i \in 1..Len(f) |-> SampleAsFloat(f[i])]

\* C16: with input_rate = output_rate, position 0 and output_capacity >=
\* input_frames, Process on N frames returns N and output frame k is input
\* frame k divided by 32768; over consecutive chunks the concatenated output
\* stays equal to the concatenated input, scaled.
C16_Identity ==
    [][IdentityProcess =>
          /\ rscall'.ret = rscall'.inputFrames
          /\ \A c \in 0..(rscall'.inputFrames * rsm.channels - 1) :
                 MemLoad(rscall'.output, c) = SampleAsFloat(MemLoad(rscall'.input, c))
          /\ GotIsFedScaled(fed, got) => GotIsFedScaled(fed', got')]_vars

\* ------------------------------------------------------------------------
\* C17
\* ------------------------------------------------------------------------

\* the cells of the output array that Process stored to
CellsWritten(before, after) == {c \in DOMAIN after.m : ~MemWritten(before, c)}

\* C17: every Process call returns a count between 0 and output_capacity
\* and stores to no output cell of a frame with index >= output_capacity;
\* the count is 0 when the resampler is not initialised, input_frames = 0
\* or output_capacity = 0.
C17_OutputBound ==
    [][rscall'.op = "Process" =>
          /\ rscall'.ret >= 0
          /\ rscall'.ret <= rscall'.outputCapacity
          /\ \A c \in CellsWritten(rscall'.before, rscall'.output) :
                 c \div ProcessChannels < rscall'.outputCapacity
          /\ (~rsm.initialized \/ rscall'.inputFrames = 0 \/ rscall'.outputCapacity = 0)
                 => (rscall'.ret = 0 /\ rscall'.output = rscall'.before)]_vars

\* a Process call on two channels that had input for more output frames
\* than output_capacity and stopped at output_capacity
C17_Witness ==
    /\ rscall.op = "Process"
    /\ rsm.initialized
    /\ rsm.channels = 2
    /\ rsm.inputRate = rsm.outputRate * RateScale
    /\ rscall.position = 0
    /\ rscall.inputFrames = 3
    /\ rscall.outputCapacity = 1
    /\ rscall.ret = 1
    /\ CellsWritten(rscall.before, rscall.output) = {0, 1}

\* ------------------------------------------------------------------------
\* C18
\* ------------------------------------------------------------------------

\* x < y on floats: false when either is not a number
FloatLess(x, y) == x # NaN /\ y # NaN /\ x < y

\* cycles_per_sample <= 0, or sync_base / cycles_per_sample below
\* 0.5 x target or above 1.5 x target
RejectedObservation(b, cycles_per_sample) ==
    \/ FloatLess(cycles_per_sample, 0)
    \/ cycles_per_sample = 0
    \/ FloatLess(InstantRate(cycles_per_sample), MinRate(b))
    \/ FloatLess(MaxRate(b), InstantRate(cycles_per_sample))

FloatEqual(x, y) == x # NaN /\ y # NaN /\ x = y

\* min <= x <= max on floats
FloatWithin(x, min, max) == x # NaN /\ min <= x /\ x <= max

\* what the claim says of the estimator of an initialised bridge
EstimatorConsistent(b) ==
    LET rm == b.rateMeasurement
    IN /\ FloatEqual(rm.currentRate, 0) <=> rm.sampleCount = 0
       /\ rm.sampleCount > 0 =>
              /\ FloatEqual(rm.currentRate, rm.emaRate)
              /\ FloatWithin(rm.currentRate, MinRate(b), MaxRate(b))

\* an accepted observation seeds the average when it is the first one since
\* Initialize and moves the average by alpha otherwise
SeedsOnce ==
    (ecall'.op = "UpdateRateMeasurement" /\ est'.rateMeasurement # est.rateMeasurement)
        => LET instantRate == InstantRate(ecall'.cycles_per_sample)
           IN est'.rateMeasurement.emaRate =
                  IF est.rateMeasurement.sampleCount = 0 THEN instantRate
                  ELSE EmaUpdate(est.rateMeasurement.emaRate, instantRate)

\* C19: after any sequence of rate observations on an initialised bridge,
\* current_rate is 0 exactly when no observation was accepted; otherwise
\* current_rate equals ema_rate and lies within [0.5 x target, 1.5 x target];
\* only the first accepted observation after Initialize seeds the average.
C19_EstimatorInvariant ==
    [][est'.initialized => (EstimatorConsistent(est') /\ SeedsOnce)]_vars

\* ------------------------------------------------------------------------
\* C20
\* ------------------------------------------------------------------------

\* an OnPullEvent step that finds room in the endpoint while the output
\* ring of the initialised bridge is empty
PullEventOnEmptyRing ==
    /\ scall'.op = "OnPullEvent"
    /\ l3.initialized
    /\ ~scall'.layer2Null
    /\ scall'.availFrames > 0
    /\ sbr.initialized
    /\ GetAvailableRead(sbr.ringBuffer) = 0

\* every sample of the packet handed to the endpoint is 0
PacketIsSilence(dev) ==
    \A i \in 0..(dev.packet.size - 1) : MemLoad(dev.packet, i) = 0

\* C20: when OnPullEvent runs with available frames > 0 while the output
\* ring of the initialised bridge is empty, the adapter's underrun counter
\* grows by exactly one and the frames handed to the endpoint are all zero.
C20_SinkUnderrun ==
    [][PullEventOnEmptyRing =>
          /\ l3'.stats.underruns = l3.stats.underruns + 1
          /\ device' # device => PacketIsSilence(device')]_vars

\* ------------------------------------------------------------------------
\* C21
\* ------------------------------------------------------------------------

\* C21: in every reachable state the fill fraction of the bridge is
\* available_read / capacity of the output ring with 0 <= available_read <=
\* capacity - 1, hence within [0, 1]; it is 0 when the bridge is not
\* initialised; GetBufferFillPercent reports this value.
C21_FillFraction ==
    LET f == GetBufferFillPercent(br)
    IN /\ f.den > 0 /\ 0 <= f.num /\ f.num <= f.den
       /\ br.initialized =>
              /\ f.den = br.ringBuffer.capacity
              /\ f.num = GetAvailableRead(br.ringBuffer)
              /\ f.num <= br.ringBuffer.capacity - 1
       /\ ~br.initialized => f.num = 0
       /\ bcall.op = "GetBufferFillPercent" => bcall.fill = f

\* the fill is reported for an output ring that holds frames after frames
\* were pulled from it
C21_Witness ==
    /\ bcall.op = "GetBufferFillPercent"
    /\ br.initialized
    /\ br.ringBuffer.readPos > 0
    /\ bcall.fill.num > 0
    /\ bcall.fill.den = 16



\* C22

\* the frames queued in the input ring once PushSample has stored its frame
\* and before the drain runs
QueueAfterPush ==
    LET k == dbg.pushSampleCalls + 1
        pushed == SubSeq(<<k, -k>>, 1, br.inputBuffer.channels)
    IN IF GetAvailableWrite(br.inputBuffer) = 0
       THEN Append(Tail(QueuedFrames(br.inputBuffer)), pushed)
       ELSE Append(QueuedFrames(br.inputBuffer), pushed)

\* the first n frames of the scratch array of the drain
ScratchFrames(b, n) ==
    [f \in 1..n |-> [ch \in 1..b.config.channels |->
                        MemLoad(b.inputTempBuffer, (f - 1) * b.config.channels + (ch - 1))]]

\* C22: the drain that PushSample runs leaves the input ring as the push left
\* it, and the output ring and the resampler unchanged, when the input ring
\* holds fewer than 16 frames; otherwise it removes exactly
\* min(available_read, 128) frames from the input ring, the oldest first, in
\* their order
C22_DrainInput ==
    [][(bcall'.op = "PushSample" /\ br.initialized)
       => LET q == QueueAfterPush
              n == Min(Len(q), 128)
          IN IF Len(q) < 16
             THEN /\ QueuedFrames(br'.inputBuffer) = q
                  /\ br'.inputBuffer.stats.totalRead
                       = br.inputBuffer.stats.totalRead
                         + (IF GetAvailableWrite(br.inputBuffer) = 0 THEN 1 ELSE 0)
                  /\ br'.ringBuffer = br.ringBuffer
                  /\ br'.resampler = br.resampler
                  /\ dbg'.resampleCalls = dbg.resampleCalls
             ELSE /\ QueuedFrames(br'.inputBuffer) = SubSeq(q, n + 1, Len(q))
                  /\ br'.inputBuffer.readPos
                       = (br.inputBuffer.readPos + n) % br.inputBuffer.capacity
                  /\ br'.inputBuffer.stats.totalRead
                       = br.inputBuffer.stats.totalRead + n
                  /\ ScratchFrames(br', n) = SubSeq(q, 1, n)
                  /\ dbg'.resampleCalls = dbg.resampleCalls + 1]_vars

\* a drain has emptied the input ring: it took the frames of the pushes 1 to
\* 16 in their order, and the push after it was left in the ring
C22_Witness ==
    /\ bcall.op = "PushSample" /\ br.initialized
    /\ dbg.resampleCalls = 1
    /\ br.inputBuffer.stats.totalRead = 16
    /\ ScratchFrames(br, 16)[1][1] = 1
    /\ ScratchFrames(br, 16)[16][1] = 16
    /\ QueuedFrames(br.inputBuffer) = <<SubSeq(<<17, -17>>, 1, br.config.channels)>>


\* C23

\* the bridge of a PushSample step whose drain has read its frames, as it
\* is when the resampler is configured (the drain changes neither the rate
\* measurement nor, after the Read, the input ring and the scratch array)
BridgeAtConfigure ==
    [br' EXCEPT !.resampler = br.resampler, !.ringBuffer = br.ringBuffer,
                !.tempBuffer = br.tempBuffer,
                !.tempBufferCapacity = br.tempBufferCapacity]

\* the number of frames Process returns in the drain of a PushSample step
\* that has read n frames: the size of the batch offered to the output ring
DrainBatch(n) ==
    LET b == BridgeAtConfigure
        cf == DrainConfigure(b, bcall'.allocOk)
        b1 == GrowTemp([b EXCEPT !.resampler = cf.rs], ExpectedOutput(b, n))
    IN IF ~cf.ret THEN 0
       ELSE ResamplerProcess(b1.resampler, b1.inputTempBuffer, n, b1.tempBuffer,
                             ExpectedOutput(b, n)).ret

\* the frames read by the drain of a PushSample step
DrainReadCount == br'.inputBuffer.stats.totalRead - br.inputBuffer.stats.totalRead

\* C23: when the batch the resampler produced in the drain is larger than
\* the room of the output ring, no frame of it is stored: the positions, the
\* written count and the queued frames of the output ring are unchanged, and
\* the overrun counters of the ring and of the bridge increase by exactly
\* one; in every PushSample step the overrun counter of the bridge does not
\* decrease, and in every step of the producer (PushSample, ProcessFromPaula)
\* the overrun counter of the output ring does not decrease, the frames
\* queued in the output ring stay at its head in their order and its
\* occupancy is at most capacity - 1
C23_OutputOverrun ==
    [][/\ (bcall'.op = "PushSample" /\ br.initialized)
          => /\ (/\ DrainReads
                 /\ DrainBatch(DrainReadCount) > GetAvailableWrite(br.ringBuffer))
                  => /\ br'.ringBuffer.writePos = br.ringBuffer.writePos
                     /\ br'.ringBuffer.readPos = br.ringBuffer.readPos
                     /\ QueuedFrames(br'.ringBuffer) = QueuedFrames(br.ringBuffer)
                     /\ br'.ringBuffer.stats.totalWritten
                          = br.ringBuffer.stats.totalWritten
                     /\ br'.ringBuffer.stats.overruns
                          = br.ringBuffer.stats.overruns + 1
                     /\ dbg'.layer2Overruns = dbg.layer2Overruns + 1
             /\ dbg'.layer2Overruns >= dbg.layer2Overruns
       /\ (bcall'.op \in {"PushSample", "ProcessFromPaula"} /\ br.initialized)
          => /\ br'.ringBuffer.stats.overruns >= br.ringBuffer.stats.overruns
             /\ GetAvailableRead(br'.ringBuffer) >= GetAvailableRead(br.ringBuffer)
             /\ SubSeq(QueuedFrames(br'.ringBuffer), 1, GetAvailableRead(br.ringBuffer))
                  = QueuedFrames(br.ringBuffer)
             /\ GetAvailableRead(br'.ringBuffer) <= br.ringBuffer.capacity - 1]_vars

\* a drain's batch was refused by an output ring of 16 frames that held
\* frames of a chunk: those frames are still queued and one overrun is counted
C23_Witness ==
    /\ bcall.op = "PushSample" /\ br.initialized
    /\ dbg.resampleCalls = 1
    /\ br.ringBuffer.capacity = 16
    /\ br.ringBuffer.stats.overruns = 1
    /\ dbg.layer2Overruns = 1
    /\ GetAvailableRead(br.ringBuffer) > 0
    /\ br.ringBuffer.stats.totalRead = 0


\* C24

\* the resampler after Process has run on the chunk of a ProcessFromPaula
\* step, had the call handed it over as rs
AfterChunk(rs) ==
    ResamplerProcess(rs, ChunkData(3, cbr.config.channels), 3, cbr.tempBuffer,
                     PaulaOutputFrames(cbr, 3, ccall'.rate)).rs

\* the step shut the resampler down and initialised it at the rate of the
\* chunk: Process started at position 0
Reconfigured ==
    cbr'.resampler
      = AfterChunk(ResamplerInitialize(ResamplerShutdown(cbr.resampler),
                                       DriftAdjusted(ccall'.rate, DriftOf(cbr)),
                                       cbr.config.targetSampleRate, cbr.config.channels,
                                       TRUE).rs)

\* the step gave the running resampler the rate of the chunk: Process
\* started at the position the preceding call left
AppliedLive ==
    cbr'.resampler
      = AfterChunk(SetInputRate(cbr.resampler, DriftAdjusted(ccall'.rate, DriftOf(cbr))))

\* the rate of the chunk differs by more than 100 Hz from the rate of the
\* chunk of the preceding ProcessFromPaula call
RateChangedByMoreThan100 ==
    (IF ccall'.rate < ccall.rate THEN ccall.rate - ccall'.rate
     ELSE ccall'.rate - ccall.rate) > RateOfInt(100)

\* C24 as stated: a ProcessFromPaula call on a running resampler shuts it
\* down and initialises it again (position 0) when the rate of its chunk
\* differs by more than 100 Hz from the rate supplied by the preceding
\* ProcessFromPaula call, and otherwise applies the rate with SetInputRate,
\* which keeps the position
C24_ReconfigureOnJump ==
    [][(/\ ccall'.op = "ProcessFromPaula"
        /\ cbr.initialized /\ cbr.resampler.initialized
        /\ ResamplerFinite(cbr.resampler)
        /\ ccall.rate > 0 /\ ccall'.rate # NaN)
       => IF RateChangedByMoreThan100 THEN Reconfigured ELSE AppliedLive]_vars


\* what the code does instead: the rate of the chunk is compared with the
\* rate of the last chunk that made the resampler be initialised
ReconfigureOnJumpFromLast ==
    [][(/\ ccall'.op = "ProcessFromPaula"
        /\ cbr.initialized /\ cbr.resampler.initialized
        /\ ResamplerFinite(cbr.resampler)
        /\ ccall.rate > 0 /\ ccall'.rate # NaN)
       => IF RateJump(cbr, ccall'.rate) THEN Reconfigured ELSE AppliedLive]_vars


\* C25

\* a PushSample step in whose drain the initialisation of the resampler
\* failed
DrainInitFails ==
    /\ bcall'.op = "PushSample" /\ br.initialized
    /\ ~bcall'.allocOk
    /\ ~br.resampler.initialized /\ ~br'.resampler.initialized

\* C25 as stated: when the initialisation of the resampler fails inside the
\* drain, no input frame is lost: the input ring holds after the call the
\* frames it held before it and the pushed frame, the oldest frame being
\* dropped only if the ring was full
C25_InitFailureKeepsInput ==
    [][DrainInitFails => QueuedFrames(br'.inputBuffer) = QueueAfterPush]_vars


\* C26

\* which of the owned components of the bridge are allocated, in the order
\* in which Initialize creates them: input ring, output ring, resampler,
\* float scratch array, int16 scratch array
Owned(b) ==
    <<b.inputBuffer # NullRing, b.ringBuffer # NullRing, b.resampler # NullResampler,
      b.tempBuffer # NULL, b.inputTempBuffer # NULL>>

\* the statements of Shutdown
ShutdownSteps ==
    {"releaseInput", "releaseOutput", "releaseResampler", "releaseTemp",
     "releaseInputTemp", "clearInitialized"}

\* the statements of Initialize that create a component
CreateSteps ==
    {"createInput", "createOutput", "createResampler", "createTemp", "createInputTemp"}

\* a call that has returned left the bridge as the call taken as a whole
\* leaves it
StepwiseAgrees ==
    (lst.pc = "idle" /\ lst.op \in {"Initialize", "Shutdown"})
    => lbr = IF lst.op = "Shutdown" THEN Layer2Shutdown(lst.entry)
             ELSE Layer2Initialize(lst.entry, lst.cfg, lst.failAt).b

\* Initialize creates the components in the order of Owned: a statement
\* that creates one finds the earlier ones allocated and the later ones not
CreatesInOrder ==
    [][lst.pc \in CreateSteps
       => \A i \in 1..5 : (~Owned(lbr)[i] /\ Owned(lbr')[i])
             => /\ \A j \in 1..(i - 1) : Owned(lbr)[j]
                /\ \A j \in (i + 1)..5 : ~Owned(lbr)[j]]_vars

\* C26 as stated: a statement of Shutdown that releases a component finds
\* every component that Initialize created after it released already, and
\* initialized becomes false only when all components are released
C26_ReverseOrder ==
    [][lst.pc \in ShutdownSteps
       => /\ \A i \in 1..5 : (Owned(lbr)[i] /\ ~Owned(lbr')[i])
                => \A j \in (i + 1)..5 : ~Owned(lbr)[j]
          /\ (lbr.initialized /\ ~lbr'.initialized)
                => \A i \in 1..5 : ~Owned(lbr)[i]]_vars

\* what the code does instead: Shutdown releases the components in the
\* order in which Initialize created them, and clears initialized last
ReleasesInCreationOrder ==
    [][lst.pc \in ShutdownSteps
       => /\ \A i \in 1..5 : (Owned(lbr)[i] /\ ~Owned(lbr')[i])
                => /\ \A j \in 1..(i - 1) : ~Owned(lbr)[j]
                   /\ \A j \in (i + 1)..5 : Owned(lbr)[j]
          /\ (lbr.initialized /\ ~lbr'.initialized)
                => \A i \in 1..5 : ~Owned(lbr)[i]]_vars


\* C27

\* the pushes that a drain needs at most: an input ring that holds no frame
\* holds 16 frames after 16 pushes
PushesPerDrain == 16

\* the producer has at least the pushes of one drain ahead of it
DrainDue ==
    /\ pbr.initialized
    /\ pn + PushesPerDrain <= MaxProgressPushes

\* the call just made was a PushSample whose drain read frames from the
\* input ring and handed them to the resampler
Drained == pcall.op = "PushSample" /\ pcall.drained

ProgressAbove1600 ==
    (DrainDue /\ ~Drained /\ pbr.config.targetSampleRate > 1600) ~> Drained

\* a drain that read frames leaves the input ring empty, and no other push
\* does
DrainedIsDrainReads ==
    [][(pcall'.op = "PushSample")
       => (pcall'.drained <=> pdbg'.resampleCalls = pdbg.resampleCalls + 1)]_vars

\* with an input ring of 16 frames no push makes the drain read: the ring
\* never holds more than 15 frames
NoDrainUpTo1600 ==
    (pbr.initialized /\ pbr.config.targetSampleRate <= 1600)
    => /\ pdbg.resampleCalls = 0
       /\ pbr.inputBuffer.capacity = 16
       /\ GetAvailableRead(pbr.inputBuffer) <= 15
       /\ pbr.inputBuffer.stats.overruns
            = (IF pn > 15 THEN pn - 15 ELSE 0)
       /\ pdbg.pushSampleCalls = pn


\* C28

\* a PushSample step whose drain produced a non-empty batch while the output
\* ring was empty
BatchForEmptyRing ==
    /\ bcall'.op = "PushSample" /\ br.initialized
    /\ DrainReads
    /\ GetAvailableRead(br.ringBuffer) = 0
    /\ DrainBatch(DrainReadCount) > 0

\* C28 as stated: for every configuration that Initialize accepts, a
\* non-empty batch that the drain produces from one chunk while the output
\* ring is empty is stored in the output ring whole, and no overrun is
\* counted
C28_OutputAcceptance ==
    [][BatchForEmptyRing
       => /\ GetAvailableRead(br'.ringBuffer) = DrainBatch(DrainReadCount)
          /\ br'.ringBuffer.stats.overruns = br.ringBuffer.stats.overruns
          /\ dbg'.layer2Overruns = dbg.layer2Overruns]_vars

\* in the run of the 44100 Hz producer into the 48000 Hz bridge, whose
\* output ring has 64 frames and is emptied before every push, every batch
\* (17 frames) is stored whole
RateRunAccepts ==
    /\ edbg.layer2Overruns = 0
    /\ eb.initialized => eb.ringBuffer.stats.overruns = 0


\* C29

\* for a rate and a resampler that are numbers the chunk is processed as
\* ProcessFromPaula processes it
ChunkAgrees ==
    [][(/\ ccall'.op = "ProcessFromPaula"
        /\ ccall'.rate # NaN /\ ResamplerFinite(cbr.resampler))
       => /\ cbr' = PaulaResample(cbr, cdbg, ChunkData(3, cbr.config.channels), 3,
                                  ccall'.rate, TRUE, FALSE).b
          /\ ResamplerFinite(cbr'.resampler)]_vars

\* a position that is a number and not negative
PositionValid(position) == position # NaN /\ position >= 0

\* C29 as stated: in every Process call that ProcessFromPaula makes, the
\* position is a number >= 0 when Process is entered and when it returns,
\* and every input frame read, floor(position) and floor(position) + 1,
\* lies within 0..inputFrames - 1
C29_MemorySafety ==
    [][(ccall'.op = "ProcessFromPaula" /\ cbr.initialized)
       => /\ PositionValid(ccall'.entry)
          /\ PositionValid(cbr'.resampler.position)
          /\ \A i \in ccall'.reads : 0 <= i /\ i <= 3 - 1]_vars

\* the same for the calls whose rate is a number, on a resampler whose rate
\* and position are numbers
SafeForNumbers ==
    [][(/\ ccall'.op = "ProcessFromPaula" /\ cbr.initialized
        /\ ccall'.rate # NaN /\ ResamplerFinite(cbr.resampler))
       => /\ PositionValid(ccall'.entry)
          /\ PositionValid(cbr'.resampler.position)
          /\ \A i \in ccall'.reads : 0 <= i /\ i <= 3 - 1]_vars


\* the resampler as Process finds it in the drain of a PushSample step
DrainEntry == DrainConfigure(BridgeAtConfigure, bcall'.allocOk).rs

\* the Process call of every drain, whose rate is the measured rate or the
\* target rate and so a number: the position is >= 0 when Process is
\* entered and when it returns, and the input frames read lie within the
\* frames the drain read from the input ring
DrainSafeForNumbers ==
    [][(DrainReads /\ bcall'.allocOk)
       => /\ ResamplerFinite(DrainEntry)
          /\ PositionValid(DrainEntry.position)
          /\ PositionValid(br'.resampler.position)
          /\ ProcessReads(DrainEntry, br'.inputTempBuffer, DrainReadCount, br'.tempBuffer,
                          ExpectedOutput(BridgeAtConfigure, DrainReadCount))
               \subseteq 0..(DrainReadCount - 1)
          /\ ProcessReads(DrainEntry, br'.inputTempBuffer, DrainReadCount, br'.tempBuffer,
                          ExpectedOutput(BridgeAtConfigure, DrainReadCount)) # {}]_vars


\* the counters of a ring agree with its occupancy
CountersAgree(rb) ==
    /\ rb.stats.totalWritten - rb.stats.totalRead = GetAvailableRead(rb)
    /\ rb.stats.totalRead <= rb.stats.totalWritten

\* C30: between two calls, on an initialised ring on which ResetStats was
\* not called since the Initialize that created its buffer, totalWritten -
\* totalRead equals GetAvailableRead() and totalRead <= totalWritten,
\* whatever Writes and Reads (accepted, refused, short, with null pointers
\* or zero frames) were made
C30_CounterConsistency ==
    (ring.buffer # NULL /\ ~rreset) => CountersAgree(ring)

\* a Write has just returned on a ring that was written, read and written
\* again so that the write position has wrapped behind the read position,
\* with frames queued
C30_Witness ==
    /\ ring.buffer # NULL
    /\ ~rreset
    /\ rcall.op = "Write"
    /\ rcall.ret
    /\ ring.stats.totalRead > 0
    /\ ring.stats.totalWritten > ring.stats.totalRead
    /\ ring.writePos < ring.readPos

\* a ResetStats call on a ring that holds frames leaves counters that no
\* longer agree with the occupancy: the condition on ResetStats is needed
ResetStatsBreaksCounters ==
    [][(rcall'.op = "ResetStats" /\ ring.buffer # NULL /\ GetAvailableRead(ring) > 0)
       => ~CountersAgree(ring')]_vars

\* the same with a producer inside Write and a consumer inside Read of one
\* ring: whenever neither call is in progress the counters agree
QuiescentCounters ==
    (sq.buffer # NULL /\ prod.pc = "idle" /\ cons.pc = "idle") => CountersAgree(sq)


\* C31

\* the call in progress has been entered and has not returned
InInitialize == np.pc \in {"zero", "mask", "loop", "rest"}

\* 2^31 as a uint32_t
U32Top == [hi |-> 32768, lo |-> 0]

\* C31 as stated: every Initialize call returns, whatever capacity in
\* 0 .. 2^32 - 1 is requested
C31_InitializeTerminates == InInitialize ~> (np.pc = "returned")

\* every Initialize call with a requested capacity of at most 2^31 returns
TerminatesUpToTop ==
    (InInitialize /\ ~U32Lt(U32Top, np.n)) ~> (np.pc = "returned")

\* once power has been shifted to 0 the loop is never left, and that happens
\* for exactly the requests above 2^31: a call with such a request is in the
\* loop for good after 32 iterations
NeverLeavesAboveTop ==
    /\ (np.pc = "loop" /\ U32IsZero(np.power)) => U32Lt(U32Top, np.n)
    /\ (np.pc \in {"rest", "returned"}) => ~U32Lt(U32Top, np.n)

\* what the steps compute is what NextPowerOf2 yields: the value returned,
\* and no return when the operator says so
RoundingAgrees ==
    /\ (np.pc \in {"rest", "returned"}) => np.power = NextPowerOf2(np.n)
    /\ (np.pc = "loop" /\ U32IsZero(np.power)) => NextPowerOf2(np.n) = Diverges
    /\ (np.pc = "loop" /\ ~U32Lt(np.power, np.n)) => np.power = NextPowerOf2(np.n)

\* a call that returned left the smallest power of two >= max(n, 1)
RoundingResult ==
    (np.pc = "returned")
    => /\ ~U32Lt(np.power, np.n)
       /\ ~U32IsZero(np.power)
       /\ U32IsZero(U32And(np.power, U32Dec(np.power)))
       /\ U32IsZero(np.n) \/ U32Lt(np.power, np.n) \/ np.power = np.n
          \/ U32Lt([hi |-> np.power.hi \div 2,
                    lo |-> (np.power.lo \div 2) + (np.power.hi % 2) * 32768], np.n)

====
